---- MODULE Spec2Model ----
(***************************************************************************)
(* Model of the rules engine (src/src/agent/rules_engine.py): the three    *)
(* rule scans check_stale_data, check_liquidity, check_asset_protection    *)
(* and their aggregation run_all_rules, over Python values.                *)
(***************************************************************************)
EXTENDS Integers, Sequences, FiniteSets, TLC

(***************************************************************************)
(* Python values.  Every value carries its type tag t.  A dict keeps its   *)
(* items in insertion order (a sequence of <<key, value>> pairs with       *)
(* distinct keys), because the engine reads "the first key".  A str is     *)
(* either an opaque text s, or a text of the shape Y-M-D, kept as the      *)
(* numbers its three digit groups denote (these may be out of range).      *)
(***************************************************************************)
None == [t |-> "None"]

Str(s) == [t |-> "str", s |-> s]

DateText(y, m, d) == [t |-> "str", y |-> y, m |-> m, d |-> d]

Num(n) == [t |-> "num", n |-> n]

List(elems) == [t |-> "list", elems |-> elems]

Dict(items) == [t |-> "dict", items |-> items]

IsDict(v) == v.t = "dict"

IsStr(v) == v.t = "str"

IsDateText(v) == v.t = "str" /\ "y" \in DOMAIN v

\* isinstance(v, (int, float))
IsNum(v) == v.t = "num"

\* bool(v)
Truthy(v) ==
    CASE v.t = "None" -> FALSE
      [] v.t = "num" -> v.n # 0
      [] v.t = "str" -> IF IsDateText(v) THEN TRUE ELSE v.s # ""
      [] v.t = "list" -> Len(v.elems) > 0
      [] v.t = "dict" -> Len(v.items) > 0

\* key in d, for a dict d
HasKey(d, k) == \E i \in 1..Len(d.items) : d.items[i][1] = k

\* d[k], for a dict d holding k
Lookup(d, k) == d.items[CHOOSE i \in 1..Len(d.items) : d.items[i][1] = k][2]

\* d.get(k, default)
Get(d, k, default) == IF HasKey(d, k) THEN Lookup(d, k) ELSE default

\* next(iter(d.keys())), for a non-empty dict d
FirstKey(d) == d.items[1][1]

\* `k in v` raises TypeError when v is not a container
InRaises(v) == v.t \in {"None", "num"}

\* `k in v`: a key of a dict, an element of a list, a substring of a str
\* (of the opaque texts of this model only the text k itself contains k)
In(k, v) ==
    CASE v.t = "dict" -> HasKey(v, k)
      [] v.t = "list" -> \E i \in 1..Len(v.elems) : v.elems[i] = Str(k)
      [] v.t = "str" -> ~IsDateText(v) /\ v.s = k

\* `for x in v` raises TypeError when v is not iterable
IterRaises(v) == v.t \in {"None", "num"}

\* The items `for x in v` yields: the elements of a list, the keys of a
\* dict, the characters of a str (exact for the texts of at most one
\* character; a longer text yields str items as well, and a str item is all
\* a rule can observe of it before it fails on .get).
Iter(v) ==
    CASE v.t = "list" -> v.elems
      [] v.t = "dict" -> [i \in 1..Len(v.items) |-> Str(v.items[i][1])]
      [] v.t = "str" -> IF Truthy(v) THEN <<v>> ELSE <<>>

(***************************************************************************)
(* Calendar: datetime.strptime(text, '%Y-%m-%d') and (a - b).days.         *)
(***************************************************************************)
IsLeap(y) == (y % 4 = 0 /\ y % 100 # 0) \/ y % 400 = 0

DaysInMonth(y, m) ==
    IF m = 2 THEN (IF IsLeap(y) THEN 29 ELSE 28)
    ELSE IF m \in {4, 6, 9, 11} THEN 30 ELSE 31

DaysBeforeYear(y) ==
    LET p == y - 1 IN p * 365 + (p \div 4) - (p \div 100) + (p \div 400)

RECURSIVE DaysBeforeMonth(_, _)
DaysBeforeMonth(y, m) ==
    IF m <= 1 THEN 0 ELSE DaysBeforeMonth(y, m - 1) + DaysInMonth(y, m - 1)

\* date.toordinal()
ToOrdinal(date) == DaysBeforeYear(date.y) + DaysBeforeMonth(date.y, date.m) + date.d

StrptimeOk_Lenient(v) == IsDateText(v)

\* strptime succeeds: a str (else TypeError) of the shape Y-M-D naming a real
\* calendar day (else ValueError)
StrptimeOk(v) ==
    /\ IsDateText(v)
    /\ v.y \in 1..9999
    /\ v.m \in 1..12
    /\ v.d \in 1..DaysInMonth(v.y, v.m)

\* strptime's result, for a text it accepts
Strptime(v) == [y |-> v.y, m |-> v.m, d |-> v.d]

\* (a - b).days, both at midnight
DaysBetween(a, b) == ToOrdinal(a) - ToOrdinal(b)

TODAY == [y |-> 2025, m |-> 11, d |-> 3]

(***************************************************************************)
(* The outcome of a call: it raised, or it returned a list of findings.    *)
(***************************************************************************)
\* A handler that swallows the error and hands back an empty list
Raised_Swallowed == [raised |-> FALSE, findings |-> <<>>]

Raised == [raised |-> TRUE, findings |-> <<>>]

Returned(findings) == [raised |-> FALSE, findings |-> findings]

Unwrap_Never(data, field) == data

\* An unwrapping that takes the value under the last key
Unwrap_LastKey(data, field) ==
    IF ~In(field, data) /\ Truthy(data) /\ IsDict(data)
    THEN data.items[Len(data.items)][2]
    ELSE data

\* The record a rule reads: the argument, or the value under its first key
\* when the argument is a non-empty dict without the expected field.
Unwrap(data, field) ==
    IF ~In(field, data) /\ Truthy(data) /\ IsDict(data)
    THEN Lookup(data, FirstKey(data))
    ELSE data

(***************************************************************************)
(* check_stale_data                                                        *)
(***************************************************************************)
IsStale_AtLeast(days_stale) == days_stale >= 365

IsStale(days_stale) == days_stale > 365

StaleFinding_NoDefault(asset, days_stale) ==
    [finding_type |-> "stale_valuation",
     asset_name |-> Get(asset, "name", None),
     days_stale |-> days_stale]

StaleFinding(asset, days_stale) ==
    [finding_type |-> "stale_valuation",
     asset_name |-> Get(asset, "name", Str("Unknown")),
     days_stale |-> days_stale]

RECURSIVE StaleLoop(_, _, _)
StaleLoop(assets, i, findings) ==
    IF i > Len(assets) THEN Returned(findings)
    ELSE LET asset == assets[i] IN
      IF ~IsDict(asset) THEN Raised
      ELSE IF Get(asset, "type", None) # Str("private_equity")
        THEN StaleLoop(assets, i + 1, findings)
      ELSE LET last_valuation_date_str == Get(asset, "last_valuation_date", None) IN
        IF ~Truthy(last_valuation_date_str) THEN StaleLoop(assets, i + 1, findings)
        ELSE IF ~StrptimeOk(last_valuation_date_str)
          THEN StaleLoop(assets, i + 1, findings)
        ELSE LET days_stale == DaysBetween(TODAY, Strptime(last_valuation_date_str)) IN
          IF IsStale(days_stale)
          THEN StaleLoop(assets, i + 1, Append(findings, StaleFinding(asset, days_stale)))
          ELSE StaleLoop(assets, i + 1, findings)

check_stale_data(data) ==
    IF InRaises(data) THEN Raised
    ELSE LET record == Unwrap(data, "assets") IN
      IF ~IsDict(record) THEN Raised
      ELSE LET assets == Get(record, "assets", List(<<>>)) IN
        IF IterRaises(assets) THEN Raised
        ELSE StaleLoop(Iter(assets), 1, <<>>)

(***************************************************************************)
(* check_liquidity                                                         *)
(***************************************************************************)
\* balance = account.get('balance') or account.get('value', 0)
AccountBalance(account) ==
    LET balance == Get(account, "balance", None) IN
    IF Truthy(balance) THEN balance ELSE Get(account, "value", Num(0))

\* A loop that converts every balance, numeric or not
RECURSIVE CashLoop_NoTypeCheck(_, _, _)
CashLoop_NoTypeCheck(cash_accounts, i, total_cash) ==
    IF i > Len(cash_accounts) THEN [raised |-> FALSE, total_cash |-> total_cash]
    ELSE LET account == cash_accounts[i] IN
      IF ~IsDict(account) \/ ~IsNum(AccountBalance(account))
      THEN [raised |-> TRUE, total_cash |-> total_cash]
      ELSE CashLoop_NoTypeCheck(cash_accounts, i + 1,
                                total_cash + AccountBalance(account).n)

\* The summing loop; it raises on an account that has no .get
RECURSIVE CashLoop(_, _, _)
CashLoop(cash_accounts, i, total_cash) ==
    IF i > Len(cash_accounts) THEN [raised |-> FALSE, total_cash |-> total_cash]
    ELSE LET account == cash_accounts[i] IN
      IF ~IsDict(account) THEN [raised |-> TRUE, total_cash |-> total_cash]
      ELSE LET balance == AccountBalance(account) IN
        IF IsNum(balance)
        THEN CashLoop(cash_accounts, i + 1, total_cash + balance.n)
        ELSE CashLoop(cash_accounts, i + 1, total_cash)

InWindow_NoLowerEnd(days_until_due) == days_until_due <= 90

InWindow_OpenEnd(days_until_due) == 0 <= days_until_due /\ days_until_due < 90

InWindow(days_until_due) == 0 <= days_until_due /\ days_until_due <= 90

Exceeds(call_value, total_cash) == call_value > total_cash

Shortfall_Swapped(call_value, total_cash) == total_cash - call_value

Shortfall(call_value, total_cash) == call_value - total_cash

LiquidityFinding(due_date_str, call_value, total_cash) ==
    [finding_type |-> "liquidity_shortfall",
     shortfall_usd |-> Shortfall(call_value, total_cash),
     due_date |-> due_date_str]

\* A loop that pays each flagged call out of the cash the later calls see
RECURSIVE LiquidityLoop_Draining(_, _, _, _)
LiquidityLoop_Draining(liabilities, i, total_cash, findings) ==
    IF i > Len(liabilities) THEN Returned(findings)
    ELSE LET liability == liabilities[i] IN
      IF ~IsDict(liability) THEN Raised
      ELSE LET due_date_str == Get(liability, "due_date", None)
               call_value == Get(liability, "value", Num(0)) IN
        IF \/ Get(liability, "type", None) # Str("capital_call")
           \/ ~Truthy(due_date_str)
           \/ ~StrptimeOk(due_date_str)
           \/ ~InWindow(DaysBetween(Strptime(due_date_str), TODAY))
           \/ ~IsNum(call_value)
           \/ ~Exceeds(call_value.n, total_cash)
        THEN LiquidityLoop_Draining(liabilities, i + 1, total_cash, findings)
        ELSE LiquidityLoop_Draining(liabilities, i + 1, total_cash - call_value.n,
               Append(findings, LiquidityFinding(due_date_str, call_value.n, total_cash)))

RECURSIVE LiquidityLoop(_, _, _, _)
LiquidityLoop(liabilities, i, total_cash, findings) ==
    IF i > Len(liabilities) THEN Returned(findings)
    ELSE LET liability == liabilities[i] IN
      IF ~IsDict(liability) THEN Raised
      ELSE IF Get(liability, "type", None) # Str("capital_call")
        THEN LiquidityLoop(liabilities, i + 1, total_cash, findings)
      ELSE LET due_date_str == Get(liability, "due_date", None)
               call_value == Get(liability, "value", Num(0)) IN
        IF ~Truthy(due_date_str)
          THEN LiquidityLoop(liabilities, i + 1, total_cash, findings)
        ELSE IF ~StrptimeOk(due_date_str)
          THEN LiquidityLoop(liabilities, i + 1, total_cash, findings)
        ELSE LET days_until_due == DaysBetween(Strptime(due_date_str), TODAY) IN
          IF ~InWindow(days_until_due)
            THEN LiquidityLoop(liabilities, i + 1, total_cash, findings)
          \* call_value > total_cash raises TypeError, caught, for a non-number
          ELSE IF ~IsNum(call_value)
            THEN LiquidityLoop(liabilities, i + 1, total_cash, findings)
          ELSE IF Exceeds(call_value.n, total_cash)
            THEN LiquidityLoop(liabilities, i + 1, total_cash,
                   Append(findings, LiquidityFinding(due_date_str, call_value.n, total_cash)))
          ELSE LiquidityLoop(liabilities, i + 1, total_cash, findings)

check_liquidity(data) ==
    IF InRaises(data) THEN Raised
    ELSE LET record == Unwrap(data, "cash_accounts") IN
      IF ~IsDict(record) THEN Raised
      ELSE LET cash_accounts == Get(record, "cash_accounts", List(<<>>)) IN
        IF IterRaises(cash_accounts) THEN Raised
        ELSE LET cash == CashLoop(Iter(cash_accounts), 1, 0) IN
          IF cash.raised THEN Raised
          ELSE LET liabilities == Get(record, "liabilities", List(<<>>)) IN
            IF IterRaises(liabilities) THEN Raised
            ELSE LiquidityLoop(Iter(liabilities), 1, cash.total_cash, <<>>)

(***************************************************************************)
(* check_asset_protection                                                  *)
(***************************************************************************)
IsInactive_AnyCase(insurance_status) ==
    insurance_status \in {Str("inactive"), Str("Inactive")}

IsInactive(insurance_status) == insurance_status = Str("inactive")

ProtectionFinding(asset) ==
    [finding_type |-> "asset_protection_risk",
     asset_name |-> Get(asset, "name", Str("Unknown"))]

\* A loop that looks at the insurance status of every asset
RECURSIVE ProtectionLoop_AnyType(_, _, _)
ProtectionLoop_AnyType(assets, i, findings) ==
    IF i > Len(assets) THEN Returned(findings)
    ELSE IF ~IsDict(assets[i]) THEN Raised
    ELSE IF IsInactive(Get(assets[i], "insurance_status", None))
      THEN ProtectionLoop_AnyType(assets, i + 1,
                                  Append(findings, ProtectionFinding(assets[i])))
    ELSE ProtectionLoop_AnyType(assets, i + 1, findings)

RECURSIVE ProtectionLoop(_, _, _)
ProtectionLoop(assets, i, findings) ==
    IF i > Len(assets) THEN Returned(findings)
    ELSE LET asset == assets[i] IN
      IF ~IsDict(asset) THEN Raised
      ELSE IF Get(asset, "type", None) # Str("real_estate")
        THEN ProtectionLoop(assets, i + 1, findings)
      ELSE IF IsInactive(Get(asset, "insurance_status", None))
        THEN ProtectionLoop(assets, i + 1, Append(findings, ProtectionFinding(asset)))
      ELSE ProtectionLoop(assets, i + 1, findings)

check_asset_protection(data) ==
    IF InRaises(data) THEN Raised
    ELSE LET record == Unwrap(data, "assets") IN
      IF ~IsDict(record) THEN Raised
      ELSE LET assets == Get(record, "assets", List(<<>>)) IN
        IF IterRaises(assets) THEN Raised
        ELSE ProtectionLoop(Iter(assets), 1, <<>>)

(***************************************************************************)
(* Inputs.  Absent marks a field left out of an entry.                     *)
(***************************************************************************)
MaxAssets == 2

MaxLiabilities == 2

MaxCash == 2

MaxRuns == 2

Absent == [t |-> "absent"]

Entry(pairs) == Dict(SelectSeq(pairs, LAMBDA p : p[2] # Absent))

SeqsUpTo(S, n) == UNION {[1..k -> S] : k \in 0..n}

Asset(type, name, last_valuation_date, insurance_status) ==
    Entry(<< <<"name", name>>, <<"type", type>>,
             <<"last_valuation_date", last_valuation_date>>,
             <<"insurance_status", insurance_status>> >>)

Liability(type, due_date, value) ==
    Entry(<< <<"type", type>>, <<"due_date", due_date>>, <<"value", value>> >>)

CashAccount(balance, value) ==
    Entry(<< <<"balance", balance>>, <<"value", value>> >>)

\* 366, 365 and 658 days before TODAY, 30 days after it, no calendar day,
\* empty, free text, null, a number, absent
ValuationDates ==
    {DateText(2024, 11, 2), DateText(2024, 11, 3), DateText(2024, 1, 15),
     DateText(2025, 12, 3), DateText(2025, 2, 30), Str(""), Str("last year"),
     None, Num(20240115), Absent}

InsuranceStatuses == {Str("inactive"), Str("active"), Str("Inactive"), None, Absent}

\* An entry that is no mapping
BadEntry == Str("oops")

\* Private-equity assets over every valuation date, and an entry of the
\* wrong shape
PrivateEquityEntries ==
    {Asset(Str("private_equity"), Str("SaaSCo"), dt, Absent) : dt \in ValuationDates}
    \cup {Asset(Str("private_equity"), Absent, DateText(2024, 11, 2), Absent)}
    \cup {BadEntry}

\* Real estate over every insurance status, assets of other or no type, and
\* one stale private-equity asset
OtherAssetEntries ==
    {Asset(Str("real_estate"), Str("Main St Property"), Absent, st) :
        st \in InsuranceStatuses}
    \cup {Asset(Str("real_estate"), Absent, Absent, Str("inactive"))}
    \cup {Asset(Str("public_equity"), Str("Index Fund"), DateText(2024, 1, 15),
                Str("inactive"))}
    \cup {Asset(Absent, Str("Index Fund"), DateText(2024, 1, 15), Str("inactive"))}
    \cup {Asset(Str("private_equity"), Absent, DateText(2024, 11, 2), Absent)}

AssetEntries == PrivateEquityEntries \cup OtherAssetEntries

\* due today, yesterday, in 30, 90, 91 and 120 days
DueDates ==
    {DateText(2025, 11, 3), DateText(2025, 11, 2), DateText(2025, 12, 3),
     DateText(2026, 2, 1), DateText(2026, 2, 2), DateText(2026, 3, 3)}

BadDueDates == {DateText(2025, 13, 1), Str(""), None, Absent}

\* Capital calls with a calendar due date and a numeric value
DatedCallEntries ==
    {Liability(Str("capital_call"), dt, Num(2000000)) : dt \in DueDates}
    \cup {Liability(Str("capital_call"), dt, Num(1750000)) :
            dt \in {DateText(2025, 11, 3), DateText(2026, 2, 1)}}
    \cup {Liability(Str("capital_call"), DateText(2025, 12, 3), Num(500000))}

\* Capital calls with a malformed date or value, a liability of another
\* type, an entry of the wrong shape, and one well-formed call
OddLiabilityEntries ==
    {Liability(Str("capital_call"), dt, Num(2000000)) : dt \in BadDueDates}
    \cup {Liability(Str("capital_call"), DateText(2025, 12, 3), v) :
            v \in {Absent, Str("2000000")}}
    \cup {Liability(Str("loan"), DateText(2025, 12, 3), Num(2000000))}
    \cup {Liability(Str("capital_call"), DateText(2025, 12, 3), Num(2000000))}
    \cup {BadEntry}

LiabilityEntries == DatedCallEntries \cup OddLiabilityEntries

CashEntries ==
    {CashAccount(Num(1000000), Absent), CashAccount(Num(750000), Absent),
     CashAccount(Absent, Num(750000)), CashAccount(Num(0), Num(500)),
     CashAccount(Str("n/a"), Absent), CashAccount(Num(-100), Absent),
     CashAccount(Absent, Absent), CashAccount(Absent, Str("n/a")),
     CashAccount(None, Num(500)), BadEntry}

\* Cash accounts totalling 1,750,000
ScenarioCash == <<CashAccount(Num(1000000), Absent), CashAccount(Num(750000), Absent)>>

Canonical(assets, liabilities, cash_accounts) ==
    Dict(<< <<"assets", List(assets)>>, <<"liabilities", List(liabilities)>>,
            <<"cash_accounts", List(cash_accounts)>> >>)

AssetInputs ==
    {Canonical(a, <<>>, ScenarioCash) :
        a \in SeqsUpTo(PrivateEquityEntries, MaxAssets)
               \cup SeqsUpTo(OtherAssetEntries, MaxAssets)}

LiabilityInputs ==
    {Canonical(<<>>, l, c) :
        l \in SeqsUpTo(DatedCallEntries, MaxLiabilities)
               \cup SeqsUpTo(OddLiabilityEntries, MaxLiabilities),
        c \in {<<>>, ScenarioCash}}

CashInputs ==
    {Canonical(<<>>, l, c) :
        l \in {<<Liability(Str("capital_call"), DateText(2025, 12, 3), Num(2000000))>>,
               <<Liability(Str("capital_call"), DateText(2025, 12, 3), Absent)>>},
        c \in SeqsUpTo(CashEntries, MaxCash)}

MixedInputs ==
    {Canonical(a, l, ScenarioCash) :
        a \in SeqsUpTo({Asset(Str("private_equity"), Str("SaaSCo"), DateText(2024, 1, 15), Absent),
                        Asset(Str("real_estate"), Str("Main St Property"), Absent, Str("inactive")),
                        Asset(Str("real_estate"), Str("Main St Property"), Absent, Str("active"))},
                       MaxAssets),
        l \in SeqsUpTo({Liability(Str("capital_call"), DateText(2025, 12, 3), Num(2000000)),
                        Liability(Str("capital_call"), DateText(2026, 3, 3), Num(2000000))},
                       MaxLiabilities)}

\* Records whose shape varies: containers left out, in either key order,
\* wrapped under one key or under the first of two, and values that are no
\* record at all.
BaseRecords ==
    {Canonical(<<Asset(Str("private_equity"), Str("SaaSCo"), DateText(2024, 1, 15), Absent),
                 Asset(Str("real_estate"), Str("Main St Property"), Absent, Str("inactive"))>>,
               <<Liability(Str("capital_call"), DateText(2025, 12, 3), Num(2000000))>>,
               ScenarioCash),
     Canonical(<<Asset(Str("private_equity"), Absent, DateText(2024, 11, 2), Absent)>>,
               <<Liability(Str("capital_call"), DateText(2026, 3, 3), Num(2000000))>>,
               <<>>),
     Canonical(<<Asset(Str("public_equity"), Str("Index Fund"), DateText(2024, 1, 15),
                       Str("inactive"))>>,
               <<Liability(Str("loan"), DateText(2025, 12, 3), Num(2000000))>>,
               <<>>),
     Canonical(<<>>, <<>>, <<>>)}

Containers == {"assets", "liabilities", "cash_accounts"}

Without(record, keys) ==
    Dict(SelectSeq(record.items, LAMBDA p : p[1] \notin keys))

Reversed(record) ==
    Dict([i \in 1..Len(record.items) |-> record.items[Len(record.items) + 1 - i]])

PartialRecords ==
    {Without(r, k) : r \in BaseRecords, k \in SUBSET Containers}
    \cup {Reversed(Without(r, k)) : r \in BaseRecords, k \in SUBSET Containers}

NonRecords == {None, Num(7), Str("x"), Str(""), List(<<>>), List(<<Str("assets")>>)}

Wrapped(key, record) == Dict(<< <<key, record>> >>)

\* Values found under the first of several keys that are no canonical
\* record: a record wrapped once more, a record without its assets, an
\* empty mapping, and values that are no mapping
FirstValues ==
    {Wrapped("fo_0", r) : r \in BaseRecords}
    \cup {Without(r, {"assets"}) : r \in BaseRecords}
    \cup {Dict(<<>>)}
    \cup NonRecords

\* Mappings of several keys: two records, a first value of another shape
\* before a record, and a record beside a liabilities field
SeveralKeys ==
    {Dict(<< <<"fo_1", r1>>, <<"fo_2", r2>> >>) : r1, r2 \in BaseRecords}
    \cup {Dict(<< <<"fo_1", v>>, <<"fo_2", r>> >>) : v \in FirstValues, r \in BaseRecords}
    \cup {Dict(<< <<"fo_1", r>>, <<"liabilities", List(<<>>)>> >>) : r \in BaseRecords}
    \cup {Dict(<< <<"liabilities", List(<<>>)>>, <<"fo_1", r>> >>) : r \in BaseRecords}

ShapeInputs ==
    PartialRecords
    \cup {Wrapped("fo_plaid_sandbox", r) : r \in PartialRecords \cup NonRecords}
    \cup {Wrapped(k, r) : k \in Containers, r \in BaseRecords}
    \cup SeveralKeys
    \cup {Dict(<< <<"fo_1", r>>, <<"assets", Lookup(r, "assets")>> >>) : r \in BaseRecords}
    \cup {Dict(<< <<"assets", v>>, <<"liabilities", List(<<>>)>>,
                  <<"cash_accounts", List(<<>>)>> >>) :
            v \in {None, Str("x"), Str(""), Dict(<<>>), Dict(<< <<"k", None>> >>)}}
    \cup NonRecords

Inputs == AssetInputs \cup LiabilityInputs \cup CashInputs \cup MixedInputs \cup ShapeInputs

(***************************************************************************)
(* run_all_rules, called MaxRuns times by one caller on the same object.   *)
(* data is the caller's object; the findings variables are the locals of   *)
(* run_all_rules; results holds what each finished call handed back.       *)
(***************************************************************************)
VARIABLES data, pc, stale_data_findings, liquidity_findings,
          asset_protection_findings, all_findings, results

(***************************************************************************)
(* The programs around the engine, each checked on its own: the pipeline   *)
(* of main.py, run_analysis.py, a PlaidDataFetcher object, the newline     *)
(* repair of the LLM response, and the PlaidDataTransformer.  A program    *)
(* that is not the one being run stays NotRunning.                         *)
(***************************************************************************)
VARIABLES pipeline, analysis, fetcher, repair, transformer

engine == <<data, pc, stale_data_findings, liquidity_findings,
            asset_protection_findings, all_findings, results>>

programs == <<pipeline, analysis, fetcher, repair, transformer>>

vars == <<data, pc, stale_data_findings, liquidity_findings,
          asset_protection_findings, all_findings, results, programs>>

NotRunning == [at |-> "not running"]

locals == <<stale_data_findings, liquidity_findings, asset_protection_findings,
            all_findings>>

Init ==
    /\ data \in Inputs
    /\ pc = "idle"
    /\ stale_data_findings = <<>>
    /\ liquidity_findings = <<>>
    /\ asset_protection_findings = <<>>
    /\ all_findings = <<>>
    /\ results = <<>>
    /\ pipeline = NotRunning
    /\ analysis = NotRunning
    /\ fetcher = NotRunning
    /\ repair = NotRunning
    /\ transformer = NotRunning

\* The call: all_findings = []
RunAllRules_KeepsList ==
    /\ pc \in {"idle", "returned", "raised"}
    /\ UNCHANGED programs
    /\ Len(results) < MaxRuns
    /\ pc' = "stale"
    /\ UNCHANGED <<data, stale_data_findings, liquidity_findings,
                   asset_protection_findings, all_findings, results>>

RunAllRules ==
    /\ pc \in {"idle", "returned", "raised"}
    /\ UNCHANGED programs
    /\ Len(results) < MaxRuns
    /\ all_findings' = <<>>
    /\ pc' = "stale"
    /\ UNCHANGED <<data, stale_data_findings, liquidity_findings,
                   asset_protection_findings, results>>

\* A rule that raises ends run_all_rules: the exception reaches the caller.
CheckStaleData_InPlace ==
    /\ pc = "stale"
    /\ UNCHANGED programs
    /\ LET r == check_stale_data(data) IN
         IF r.raised
         THEN /\ pc' = "raised"
              /\ results' = Append(results, Raised)
              /\ UNCHANGED <<data, locals>>
         ELSE /\ pc' = "liquidity"
              /\ stale_data_findings' = r.findings
              /\ data' = Unwrap(data, "assets")
              /\ UNCHANGED <<liquidity_findings, asset_protection_findings,
                             all_findings, results>>

CheckStaleData ==
    /\ pc = "stale"
    /\ UNCHANGED programs
    /\ LET r == check_stale_data(data) IN
         IF r.raised
         THEN /\ pc' = "raised"
              /\ results' = Append(results, Raised)
              /\ UNCHANGED <<data, locals>>
         ELSE /\ pc' = "liquidity"
              /\ stale_data_findings' = r.findings
              /\ UNCHANGED <<data, liquidity_findings, asset_protection_findings,
                             all_findings, results>>

CheckLiquidity ==
    /\ pc = "liquidity"
    /\ UNCHANGED programs
    /\ LET r == check_liquidity(data) IN
         IF r.raised
         THEN /\ pc' = "raised"
              /\ results' = Append(results, Raised)
              /\ UNCHANGED <<data, locals>>
         ELSE /\ pc' = "protection"
              /\ liquidity_findings' = r.findings
              /\ UNCHANGED <<data, stale_data_findings, asset_protection_findings,
                             all_findings, results>>

CheckAssetProtection ==
    /\ pc = "protection"
    /\ UNCHANGED programs
    /\ LET r == check_asset_protection(data) IN
         IF r.raised
         THEN /\ pc' = "raised"
              /\ results' = Append(results, Raised)
              /\ UNCHANGED <<data, locals>>
         ELSE /\ pc' = "combine"
              /\ asset_protection_findings' = r.findings
              /\ UNCHANGED <<data, stale_data_findings, liquidity_findings,
                             all_findings, results>>

\* The three extend calls
Combined_ProtectionFirst(acc, stale, liquidity, protection) ==
    acc \o protection \o stale \o liquidity

\* An aggregation that extends with the stale findings twice
Combined_StaleTwice(acc, stale, liquidity, protection) ==
    acc \o stale \o stale \o liquidity \o protection

Combined(acc, stale, liquidity, protection) ==
    acc \o stale \o liquidity \o protection

\* run_all_rules as a function of its argument: the first rule that raises
\* ends the call, else the three lists are combined.
run_all_rules(arg) ==
    LET stale == check_stale_data(arg)
        liquidity == check_liquidity(arg)
        protection == check_asset_protection(arg)
    IN IF stale.raised \/ liquidity.raised \/ protection.raised THEN Raised
       ELSE Returned(Combined(<<>>, stale.findings, liquidity.findings,
                              protection.findings))

CombineFindings ==
    /\ pc = "combine"
    /\ UNCHANGED programs
    /\ all_findings' = Combined(all_findings, stale_data_findings,
                                liquidity_findings, asset_protection_findings)
    /\ results' = Append(results, Returned(all_findings'))
    /\ pc' = "returned"
    /\ UNCHANGED <<data, stale_data_findings, liquidity_findings,
                   asset_protection_findings>>

Next ==
    \/ RunAllRules
    \/ CheckStaleData
    \/ CheckLiquidity
    \/ CheckAssetProtection
    \/ CombineFindings

Spec == Init /\ [][Next]_vars

(***************************************************************************)
(* main.py: main() runs the three steps fetch, transform, analysis.  Each  *)
(* step is an import followed by a call of the step's own main, which      *)
(* returns 0 or 1; the import can raise (a missing package, or             *)
(* run_analysis_with_plaid without GOOGLE_API_KEY).  files are the files   *)
(* the steps read and write, steps the steps started so far, returned what *)
(* each gave, value what main returned (NoValue while it runs).            *)
(***************************************************************************)
NoValue == -1

PlaidData == "output/plaid_data.json"

TransformedData == "output/transformed_plaid_data.json"

MockData == "mock_data.json"

AnalysisResults == "output/analysis_results_plaid.json"

MockResults == "output/analysis_results_mock.json"

\* The files an earlier run can have left behind
Files == {PlaidData, TransformedData, MockData, AnalysisResults}

StepRaised(files) == [raised |-> TRUE, ret |-> NoValue, files |-> files]

StepReturned(ret, files) == [raised |-> FALSE, ret |-> ret, files |-> files]

\* plaid_data_fetcher_simple.main: 1 when anything in it raised, else 0 with
\* the fetched data saved
fetch_data(files) ==
    {StepRaised(files), StepReturned(1, files),
     StepReturned(0, files \cup {PlaidData})}

\* plaid_data_transformer.main: 1 when the fetched data cannot be loaded or a
\* later call raised (print_summary comes after the save), else 0
transform_data(files) ==
    {StepRaised(files), StepReturned(1, files)}
    \cup (IF PlaidData \in files
          THEN {StepReturned(1, files \cup {TransformedData}),
                StepReturned(0, files \cup {TransformedData})}
          ELSE {})

\* run_analysis_with_plaid: the import raises without GOOGLE_API_KEY; main
\* returns 1 when there is no data file or the analysis raised, else 0
run_analysis_with_plaid(files, google_api_key) ==
    {StepRaised(files)}
    \cup (IF google_api_key THEN {StepReturned(1, files)} ELSE {})
    \cup (IF google_api_key /\ TransformedData \in files
          THEN {StepReturned(0, files \cup {AnalysisResults}
                                  \cup (IF MockData \in files THEN {MockResults} ELSE {}))}
          ELSE {})

\* A main that goes on after a failed step
MainAfter_GoesOn(step, last) ==
    IF step.raised THEN [value |-> 1, next |-> FALSE]
    ELSE IF last THEN [value |-> step.ret, next |-> FALSE]
    ELSE [value |-> NoValue, next |-> TRUE]

\* What main does with a step: the except clause and a non-zero result
\* return 1, the last step's 0 returns 0, an earlier 0 goes to the next step
MainAfter(step, last) ==
    IF step.raised THEN [value |-> 1, next |-> FALSE]
    ELSE IF step.ret # 0 THEN [value |-> 1, next |-> FALSE]
    ELSE IF last THEN [value |-> 0, next |-> FALSE]
    ELSE [value |-> NoValue, next |-> TRUE]

MainStep(name, step, last, then) ==
    LET after == MainAfter(step, last) IN
    pipeline' = [pipeline EXCEPT
                   !.at = IF after.next THEN then ELSE "done",
                   !.files = step.files,
                   !.steps = Append(@, name),
                   !.returned = Append(@, [raised |-> step.raised, ret |-> step.ret]),
                   !.value = after.value]

EngineIdle ==
    /\ data = None
    /\ pc = "idle"
    /\ stale_data_findings = <<>>
    /\ liquidity_findings = <<>>
    /\ asset_protection_findings = <<>>
    /\ all_findings = <<>>
    /\ results = <<>>

MainInit ==
    /\ EngineIdle
    /\ pipeline \in {[at |-> "fetch", files |-> f, google_api_key |-> k,
                       steps |-> <<>>, returned |-> <<>>, value |-> NoValue] :
                        f \in SUBSET Files,
                        k \in BOOLEAN}
    /\ analysis = NotRunning
    /\ fetcher = NotRunning
    /\ repair = NotRunning
    /\ transformer = NotRunning

FetchData ==
    /\ pipeline.at = "fetch"
    /\ \E step \in fetch_data(pipeline.files) :
         MainStep("fetch", step, FALSE, "transform")
    /\ UNCHANGED <<engine, analysis, fetcher, repair, transformer>>

TransformData ==
    /\ pipeline.at = "transform"
    /\ \E step \in transform_data(pipeline.files) :
         MainStep("transform", step, FALSE, "analysis")
    /\ UNCHANGED <<engine, analysis, fetcher, repair, transformer>>

RunAnalysisWithPlaid ==
    /\ pipeline.at = "analysis"
    /\ \E step \in run_analysis_with_plaid(pipeline.files, pipeline.google_api_key) :
         MainStep("analysis", step, TRUE, "done")
    /\ UNCHANGED <<engine, analysis, fetcher, repair, transformer>>

MainNext ==
    \/ FetchData
    \/ TransformData
    \/ RunAnalysisWithPlaid

MainSpec == MainInit /\ [][MainNext]_vars

(***************************************************************************)
(* run_analysis.py: main() calls run_analysis(), which loads the data,     *)
(* runs the rules engine and, with findings, initialises the model, sends  *)
(* the request and builds the InsightResponse; main prints and saves it.   *)
(* events lists what was done with the model and the results; insights is  *)
(* what run_analysis returned; value is what main returned.                *)
(***************************************************************************)
\* The mock data: records of assets and calls, and records of every shape
MockInputs == MixedInputs \cup ShapeInputs

\* A test that never takes the early return
NoFindings_Never(findings) == FALSE

\* not all_findings
NoFindings(findings) == Len(findings) = 0

\* main's except clause: an exception raised anywhere in run_analysis
AnalysisFailed == [analysis EXCEPT !.at = "done", !.value = 1]

AnalysisInit ==
    /\ EngineIdle
    /\ pipeline = NotRunning
    /\ analysis \in {[at |-> "load", data |-> d, google_api_key |-> k,
                       all_findings |-> <<>>, events |-> <<>>,
                       insights |-> "unset", value |-> NoValue] :
                        d \in MockInputs, k \in BOOLEAN}
    /\ fetcher = NotRunning
    /\ repair = NotRunning
    /\ transformer = NotRunning

\* load_mock_data: the file opens and parses, or the call raises
LoadMockData ==
    /\ analysis.at = "load"
    /\ \E loaded \in BOOLEAN :
         analysis' = IF loaded THEN [analysis EXCEPT !.at = "rules"]
                     ELSE AnalysisFailed
    /\ UNCHANGED <<engine, pipeline, fetcher, repair, transformer>>

\* all_findings = run_all_rules(...), and the early return
RunRulesEngine ==
    /\ analysis.at = "rules"
    /\ LET r == run_all_rules(analysis.data) IN
         analysis' =
           IF r.raised THEN AnalysisFailed
           ELSE IF NoFindings(r.findings)
             THEN [analysis EXCEPT !.at = "returned", !.all_findings = r.findings,
                                   !.insights = "None"]
           ELSE [analysis EXCEPT !.at = "model", !.all_findings = r.findings]
    /\ UNCHANGED <<engine, pipeline, fetcher, repair, transformer>>

\* initialize_gemini_model: raises without the key, or when the client does
InitializeGeminiModel ==
    /\ analysis.at = "model"
    /\ \E created \in BOOLEAN :
         analysis' =
           IF analysis.google_api_key /\ created
           THEN [analysis EXCEPT !.at = "invoke", !.events = Append(@, "model")]
           ELSE AnalysisFailed
    /\ UNCHANGED <<engine, pipeline, fetcher, repair, transformer>>

\* model.invoke(messages): the request is sent; a response comes or it raises
InvokeModel ==
    /\ analysis.at = "invoke"
    /\ \E answered \in BOOLEAN :
         analysis' =
           IF answered
           THEN [analysis EXCEPT !.at = "parse", !.events = Append(@, "request")]
           ELSE [AnalysisFailed EXCEPT !.events = Append(@, "request")]
    /\ UNCHANGED <<engine, pipeline, fetcher, repair, transformer>>

\* The response is cleaned, parsed and validated into an InsightResponse
BuildInsightResponse ==
    /\ analysis.at = "parse"
    /\ \E valid \in BOOLEAN :
         analysis' =
           IF valid
           THEN [analysis EXCEPT !.at = "returned",
                                 !.events = Append(@, "InsightResponse"),
                                 !.insights = "InsightResponse"]
           ELSE AnalysisFailed
    /\ UNCHANGED <<engine, pipeline, fetcher, repair, transformer>>

\* main after run_analysis returned: None returns 0 at once; otherwise
\* print_insights (which can raise) and save_results (which cannot)
AnalysisMain ==
    /\ analysis.at = "returned"
    /\ \E printed \in BOOLEAN :
         analysis' =
           IF analysis.insights = "None"
           THEN [analysis EXCEPT !.at = "done", !.value = 0]
           ELSE IF printed
             THEN [analysis EXCEPT !.at = "done", !.value = 0,
                                   !.events = @ \o <<"print", "save">>]
           ELSE AnalysisFailed
    /\ UNCHANGED <<engine, pipeline, fetcher, repair, transformer>>

AnalysisNext ==
    \/ LoadMockData
    \/ RunRulesEngine
    \/ InitializeGeminiModel
    \/ InvokeModel
    \/ BuildInsightResponse
    \/ AnalysisMain

AnalysisSpec == AnalysisInit /\ [][AnalysisNext]_vars

(***************************************************************************)
(* plaid_data_fetcher_simple.py: one PlaidDataFetcher object and a caller  *)
(* that makes up to MaxCalls method calls on it in any order.              *)
(* access_token and item_id are the object's fields (NoToken is None).     *)
(* A retrying fetch is in progress while at names it: attempt is the loop  *)
(* index, api_calls the API calls the current method call made, errors the *)
(* texts of the exceptions it caught.  outcome is what the last finished   *)
(* method call gave.  exchanged and granted remember whether an exchange   *)
(* succeeded and what the last successful one was given.                   *)
(***************************************************************************)
MaxCalls == 3

MaxRetries == 3

NoToken == "None"

AccessTokens == {"access-sandbox-1", "access-sandbox-2"}

ItemIds == {"item-1", "item-2"}

\* not self.access_token
NoAccessToken_Never(access_token) == FALSE

NoAccessToken(access_token) == access_token = NoToken \/ access_token = ""

\* str(e) of the exceptions an API call raises, word by word
ApiErrors ==
    {<<"PRODUCT_NOT_READY">>,
     <<"Status", "400", "error_code", "PRODUCT_NOT_READY">>,
     <<"product_not_ready">>,
     <<"INVALID_ACCESS_TOKEN">>}

\* The lists an API call answers with
ApiRecords == {<<>>, <<"record 1">>, <<"record 1", "record 2">>}

\* "PRODUCT_NOT_READY" in str(e)
ProductNotReady(error) == \E i \in 1..Len(error) : error[i] = "PRODUCT_NOT_READY"

\* A handler that retries after any error
ShouldRetry_AnyError(error, attempt, max_retries) == attempt < max_retries - 1

\* "PRODUCT_NOT_READY" in str(e) and attempt < max_retries - 1
ShouldRetry(error, attempt, max_retries) ==
    ProductNotReady(error) /\ attempt < max_retries - 1

\* A handler that re-raises on the last attempt too
GivesUp_Never(attempt, max_retries) == FALSE

\* attempt == max_retries - 1
GivesUp(attempt, max_retries) == attempt = max_retries - 1

NoOutcome == [kind |-> "none", method |-> "none", type |-> "none", value |-> <<>>]

MethodReturned(method, value) ==
    [kind |-> "returned", method |-> method, type |-> "none", value |-> value]

MethodRaised(method, type, error) ==
    [kind |-> "raised", method |-> method, type |-> type, value |-> error]

\* raise ValueError("Access token not available. ...")
TokenMissing(method) ==
    MethodRaised(method, "ValueError", <<"Access", "token", "not", "available">>)

\* The loop fell through (range(max_retries) is empty): the method returns None
ReturnedNone(method) ==
    [kind |-> "returned", method |-> method, type |-> "None", value |-> <<>>]

FetcherInit ==
    /\ EngineIdle
    /\ pipeline = NotRunning
    /\ analysis = NotRunning
    /\ fetcher = [access_token |-> NoToken, item_id |-> NoToken, at |-> "idle",
                  max_retries |-> 0, attempt |-> 0, api_calls |-> 0,
                  errors |-> <<>>, outcome |-> NoOutcome,
                  exchanged |-> FALSE,
                  granted |-> [access_token |-> NoToken, item_id |-> NoToken],
                  calls |-> 0]
    /\ repair = NotRunning
    /\ transformer = NotRunning

\* A method call begins: the caller is between calls and has calls left
Called(method) ==
    /\ fetcher.at = "idle"
    /\ fetcher.calls < MaxCalls

Begun == [fetcher EXCEPT !.calls = @ + 1, !.api_calls = 0, !.errors = <<>>,
                         !.attempt = 0, !.max_retries = 0]

ExchangePublicToken ==
    /\ Called("exchange_public_token")
    /\ \/ \E a \in AccessTokens, i \in ItemIds :
            fetcher' = [Begun EXCEPT
                          !.api_calls = 1,
                          !.access_token = a,
                          !.item_id = i,
                          !.exchanged = TRUE,
                          !.granted = [access_token |-> a, item_id |-> i],
                          !.outcome = MethodReturned("exchange_public_token", <<a, i>>)]
       \/ \E error \in ApiErrors :
            fetcher' = [Begun EXCEPT
                          !.api_calls = 1,
                          !.errors = <<error>>,
                          !.outcome = MethodRaised("exchange_public_token",
                                                   "ApiException", error)]
    /\ UNCHANGED <<engine, pipeline, analysis, repair, transformer>>

GetAccounts ==
    /\ Called("get_accounts")
    /\ IF NoAccessToken(fetcher.access_token)
       THEN fetcher' = [Begun EXCEPT !.outcome = TokenMissing("get_accounts")]
       ELSE \/ \E accounts \in ApiRecords :
                 fetcher' = [Begun EXCEPT
                               !.api_calls = 1,
                               !.outcome = MethodReturned("get_accounts", accounts)]
            \/ \E error \in ApiErrors :
                 fetcher' = [Begun EXCEPT
                               !.api_calls = 1,
                               !.errors = <<error>>,
                               !.outcome = MethodRaised("get_accounts",
                                                        "ApiException", error)]
    /\ UNCHANGED <<engine, pipeline, analysis, repair, transformer>>

\* The call of a retrying fetch up to the loop: the token test, and the
\* loop that range(max_retries) leaves empty
RetryCall(method, max_retries) ==
    fetcher' =
      IF NoAccessToken(fetcher.access_token)
      THEN [Begun EXCEPT !.outcome = TokenMissing(method)]
      ELSE IF max_retries <= 0
        THEN [Begun EXCEPT !.max_retries = max_retries,
                           !.outcome = ReturnedNone(method)]
      ELSE [Begun EXCEPT !.at = method, !.max_retries = max_retries,
                         !.outcome = NoOutcome]

\* One pass of the loop: the API call, and the except clause
RetryAttempt(method) ==
    \/ \E records \in ApiRecords :
         fetcher' = [fetcher EXCEPT
                       !.at = "idle",
                       !.api_calls = @ + 1,
                       !.outcome = MethodReturned(method, records)]
    \/ \E error \in ApiErrors :
         fetcher' =
           IF ShouldRetry(error, fetcher.attempt, fetcher.max_retries)
           THEN [fetcher EXCEPT !.api_calls = @ + 1,
                                !.errors = Append(@, error),
                                !.attempt = @ + 1]
           ELSE IF GivesUp(fetcher.attempt, fetcher.max_retries)
             THEN [fetcher EXCEPT !.at = "idle",
                                  !.api_calls = @ + 1,
                                  !.errors = Append(@, error),
                                  !.outcome = MethodReturned(method, <<>>)]
           ELSE [fetcher EXCEPT !.at = "idle",
                                !.api_calls = @ + 1,
                                !.errors = Append(@, error),
                                !.outcome = MethodRaised(method, "ApiException", error)]

GetTransactionsWithRetry ==
    /\ Called("get_transactions_with_retry")
    /\ \E max_retries \in 0..MaxRetries :
         RetryCall("get_transactions_with_retry", max_retries)
    /\ UNCHANGED <<engine, pipeline, analysis, repair, transformer>>

TransactionsAttempt ==
    /\ fetcher.at = "get_transactions_with_retry"
    /\ fetcher.attempt < fetcher.max_retries
    /\ RetryAttempt("get_transactions_with_retry")
    /\ UNCHANGED <<engine, pipeline, analysis, repair, transformer>>

GetInvestmentHoldingsWithRetry ==
    /\ Called("get_investment_holdings_with_retry")
    /\ \E max_retries \in 0..MaxRetries :
         RetryCall("get_investment_holdings_with_retry", max_retries)
    /\ UNCHANGED <<engine, pipeline, analysis, repair, transformer>>

HoldingsAttempt ==
    /\ fetcher.at = "get_investment_holdings_with_retry"
    /\ fetcher.attempt < fetcher.max_retries
    /\ RetryAttempt("get_investment_holdings_with_retry")
    /\ UNCHANGED <<engine, pipeline, analysis, repair, transformer>>

FetcherNext ==
    \/ ExchangePublicToken
    \/ GetAccounts
    \/ GetTransactionsWithRetry
    \/ TransactionsAttempt
    \/ GetInvestmentHoldingsWithRetry
    \/ HoldingsAttempt

FetcherSpec == FetcherInit /\ [][FetcherNext]_vars

(***************************************************************************)
(* run_analysis.py, lines 157-191: the scan that escapes the newlines      *)
(* inside the string values of the LLM's JSON text.  A text is a sequence  *)
(* of characters.  json_content is the text from the first { to the last   *)
(* }; i, in_string, escape_next and result_chars are the locals of the     *)
(* loop.  A caller applies the scan, and once more to what it gave: first  *)
(* keeps the result of the first pass, scanned the text a pass began with. *)
(***************************************************************************)
MaxLen == 5

Backslash == "\\"

Quote == "\""

Newline == "\n"

Return == "\r"

\* The characters of a response between its braces
Chars == {Backslash, Quote, Newline, Return, "n"}

JsonTexts == {<<"{">> \o body \o <<"}">> : body \in SeqsUpTo(Chars, MaxLen)}

\* A pass of the loop that forgets escape_next before a newline
ScanStep_EscapeForgotten(char, in_string, escape_next) ==
    IF char = Newline /\ in_string
      THEN [out |-> <<Backslash, "n">>, in_string |-> in_string, escape_next |-> FALSE]
    ELSE IF char = Return /\ in_string
      THEN [out |-> <<Backslash, "r">>, in_string |-> in_string, escape_next |-> FALSE]
    ELSE IF escape_next
      THEN [out |-> <<char>>, in_string |-> in_string, escape_next |-> FALSE]
    ELSE IF char = Backslash /\ in_string
      THEN [out |-> <<char>>, in_string |-> in_string, escape_next |-> TRUE]
    ELSE IF char = Quote
      THEN [out |-> <<char>>, in_string |-> ~in_string, escape_next |-> FALSE]
    ELSE [out |-> <<char>>, in_string |-> in_string, escape_next |-> FALSE]

\* One pass of the while loop: what is appended to result_chars, and the
\* two flags afterwards
ScanStep(char, in_string, escape_next) ==
    IF escape_next
      THEN [out |-> <<char>>, in_string |-> in_string, escape_next |-> FALSE]
    ELSE IF char = Backslash /\ in_string
      THEN [out |-> <<char>>, in_string |-> in_string, escape_next |-> TRUE]
    ELSE IF char = Quote /\ ~escape_next
      THEN [out |-> <<char>>, in_string |-> ~in_string, escape_next |-> FALSE]
    ELSE IF char = Newline /\ in_string
      THEN [out |-> <<Backslash, "n">>, in_string |-> in_string, escape_next |-> FALSE]
    ELSE IF char = Return /\ in_string
      THEN [out |-> <<Backslash, "r">>, in_string |-> in_string, escape_next |-> FALSE]
    ELSE [out |-> <<char>>, in_string |-> in_string, escape_next |-> FALSE]

\* The locals before the loop
ScanBegun(text, pass, first) ==
    [at |-> "scan", json_content |-> text, scanned |-> text, i |-> 0,
     in_string |-> FALSE, escape_next |-> FALSE, result_chars |-> <<>>,
     pass |-> pass, first |-> first]

RepairInit ==
    /\ EngineIdle
    /\ pipeline = NotRunning
    /\ analysis = NotRunning
    /\ fetcher = NotRunning
    /\ repair \in {ScanBegun(text, 1, <<>>) : text \in JsonTexts}
    /\ transformer = NotRunning

\* while i < len(json_content): ... i += 1   (i counts from 0)
ScanChar ==
    /\ repair.at = "scan"
    /\ repair.i < Len(repair.json_content)
    /\ LET step == ScanStep(repair.json_content[repair.i + 1],
                            repair.in_string, repair.escape_next)
       IN repair' = [repair EXCEPT
                       !.result_chars = @ \o step.out,
                       !.in_string = step.in_string,
                       !.escape_next = step.escape_next,
                       !.i = @ + 1]
    /\ UNCHANGED <<engine, pipeline, analysis, fetcher, transformer>>

\* json_content = ''.join(result_chars)
JoinResult ==
    /\ repair.at = "scan"
    /\ repair.i >= Len(repair.json_content)
    /\ repair' = [repair EXCEPT !.at = "joined", !.json_content = repair.result_chars]
    /\ UNCHANGED <<engine, pipeline, analysis, fetcher, transformer>>

\* The scan applied to its own output
ScanAgain ==
    /\ repair.at = "joined"
    /\ repair.pass = 1
    /\ repair' = ScanBegun(repair.json_content, 2, repair.json_content)
    /\ UNCHANGED <<engine, pipeline, analysis, fetcher, transformer>>

RepairNext ==
    \/ ScanChar
    \/ JoinResult
    \/ ScanAgain

RepairSpec == RepairInit /\ [][RepairNext]_vars

(***************************************************************************)
(* plaid_data_transformer.py: PlaidDataTransformer turns the dataset the   *)
(* fetcher saved into the family-office record, which the rules engine     *)
(* then reads.  Datasets, accounts, holdings and what is made of them are  *)
(* Python values.                                                          *)
(***************************************************************************)
MaxAccounts == 2

\* account_id by position in the dataset
AccountIds == <<"acc_1", "acc_2", "acc_3", "acc_4">>

\* type and subtype as the fetcher writes them
AccountKinds ==
    {<<Str("depository"), Str("checking")>>, <<Str("depository"), Str("savings")>>,
     <<Str("depository"), Str("money market")>>, <<Str("investment"), Str("brokerage")>>,
     <<Str("credit"), Str("credit card")>>, <<Str("loan"), Str("student")>>}

\* balances.current: absent from the answer, zero, owed, held
CurrentBalances == {None, Num(0), Num(-50), Num(100)}

PlaidAccount(account_id, kind, current) ==
    Dict(<< <<"account_id", Str(account_id)>>,
            <<"name", Str("Plaid Account")>>,
            <<"official_name", None>>,
            <<"type", kind[1]>>,
            <<"subtype", kind[2]>>,
            <<"mask", Str("0000")>>,
            <<"balances", Dict(<< <<"available", current>>,
                                  <<"current", current>>,
                                  <<"limit", None>>,
                                  <<"iso_currency_code", Str("USD")>>,
                                  <<"unofficial_currency_code", None>> >>)>> >>)

Holding(account_id, security_id, institution_value) ==
    Dict(<< <<"account_id", Str(account_id)>>,
            <<"security_id", Str(security_id)>>,
            <<"institution_price", Num(10)>>,
            <<"institution_price_as_of", None>>,
            <<"institution_value", institution_value>>,
            <<"cost_basis", None>>,
            <<"quantity", Num(5)>>,
            <<"iso_currency_code", Str("USD")>>,
            <<"unofficial_currency_code", None>> >>)

AccountLists ==
    {[i \in 1..Len(picks) |-> PlaidAccount(AccountIds[i], picks[i][1], picks[i][2])] :
        picks \in SeqsUpTo(AccountKinds \X CurrentBalances, MaxAccounts)}

HoldingLists ==
    {<<>>,
     <<Holding("acc_1", "sec_1", Num(500))>>,
     <<Holding("acc_1", "sec_1", Num(0)), Holding("acc_9", "sec_2", Num(500)),
       Holding("acc_1", "sec_3", None)>>}

\* What fetch_basic_data compiles, and the same without its holdings
PlaidDatasets ==
    {Dict(<< <<"metadata", Dict(<< <<"fetched_at", Str("2025-11-03T09:00:00")>>,
                                   <<"item_id", Str("item-1")>>,
                                   <<"access_token", Str("access-sandbox-1...")>>,
                                   <<"data_source", Str("plaid_sandbox")>> >>)>>,
             <<"accounts", List(accounts)>>,
             <<"transactions", List(<<>>)>>,
             <<"investment_holdings", List(holdings)>> >>) :
        accounts \in AccountLists, holdings \in HoldingLists}
    \cup {Dict(<< <<"metadata", Dict(<< <<"item_id", Str("item-1")>> >>)>>,
                  <<"accounts", List(accounts)>> >>) :
             accounts \in AccountLists}

Current(account) == Lookup(Lookup(account, "balances"), "current")

\* A transformer that keeps the credit accounts among the assets
BecomesAsset_CreditToo(account) ==
    Truthy(Current(account)) /\ Current(account).n > 0

\* Lines 36-37 and 60-62: the accounts the loop does not skip
BecomesAsset(account) ==
    /\ ~(~Truthy(Current(account)) \/ Current(account).n <= 0)
    /\ Lookup(account, "type") # Str("credit")

AssetType(account) ==
    IF Lookup(account, "type") = Str("depository") THEN "cash_account"
    ELSE IF Lookup(account, "type") = Str("investment") THEN "investment_account"
    ELSE "other"

AssetName(account) ==
    LET name == Lookup(account, "name").s
        subtype == Lookup(account, "subtype")
    IN IF Lookup(account, "type") = Str("depository")
       THEN (IF subtype = Str("checking") THEN name \o " (Checking)"
             ELSE IF subtype = Str("savings") THEN name \o " (Savings)"
             ELSE IF subtype = Str("cd") THEN name \o " (CD)"
             ELSE name)
       ELSE name

AssetData(account) ==
    Dict(<< <<"type", Str(AssetType(account))>>,
            <<"value", Current(account)>>,
            <<"name", Str(AssetName(account))>>,
            <<"account_id", Lookup(account, "account_id")>>,
            <<"mask", Lookup(account, "mask")>>,
            <<"connection_status", Str("active")>> >>)

RECURSIVE transform_accounts_to_assets(_)
transform_accounts_to_assets(accounts) ==
    IF accounts = <<>> THEN <<>>
    ELSE (IF BecomesAsset(Head(accounts)) THEN <<AssetData(Head(accounts))>> ELSE <<>>)
         \o transform_accounts_to_assets(Tail(accounts))

HoldingData(holding) ==
    Dict(<< <<"type", Str("investment_holding")>>,
            <<"value", Lookup(holding, "institution_value")>>,
            <<"name", Str("Security " \o Lookup(holding, "security_id").s)>>,
            <<"account_id", Lookup(holding, "account_id")>>,
            <<"security_id", Lookup(holding, "security_id")>>,
            <<"quantity", Get(holding, "quantity", Num(0))>>,
            <<"institution_price", Get(holding, "institution_price", Num(0))>>,
            <<"connection_status", Str("active")>> >>)

RECURSIVE transform_investment_holdings_to_assets(_)
transform_investment_holdings_to_assets(holdings) ==
    IF holdings = <<>> THEN <<>>
    ELSE LET value == Get(Head(holdings), "institution_value", None) IN
         (IF ~Truthy(value) \/ value.n <= 0 THEN <<>>
          ELSE <<HoldingData(Head(holdings))>>)
         \o transform_investment_holdings_to_assets(Tail(holdings))

\* A transformer that books a credit account as a capital call
LiabilityType_CapitalCall == "capital_call"

LiabilityType == "credit_card"

Abs(n) == IF n < 0 THEN -n ELSE n

LiabilityData(account) ==
    LET balance == Current(account) IN
    Dict(<< <<"type", Str(LiabilityType)>>,
            <<"value", IF Truthy(balance) THEN Num(Abs(balance.n)) ELSE Num(0)>>,
            <<"name", Lookup(account, "name")>>,
            <<"account_id", Lookup(account, "account_id")>>,
            <<"credit_limit", Lookup(Lookup(account, "balances"), "limit")>>,
            <<"mask", Lookup(account, "mask")>> >>)

RECURSIVE transform_accounts_to_liabilities(_)
transform_accounts_to_liabilities(accounts) ==
    IF accounts = <<>> THEN <<>>
    ELSE (IF Lookup(Head(accounts), "type") = Str("credit")
          THEN <<LiabilityData(Head(accounts))>> ELSE <<>>)
         \o transform_accounts_to_liabilities(Tail(accounts))

transform_to_family_office_format(plaid_data) ==
    LET accounts == Lookup(plaid_data, "accounts").elems
        holdings == Get(plaid_data, "investment_holdings", List(<<>>)).elems
        cash_assets == transform_accounts_to_assets(accounts)
        investment_assets == transform_investment_holdings_to_assets(holdings)
        liabilities == transform_accounts_to_liabilities(accounts)
        all_assets == cash_assets \o investment_assets
    IN Dict(<< <<"fo_plaid_sandbox",
                 Dict(<< <<"assets", List(all_assets)>>,
                         <<"liabilities", List(liabilities)>>,
                         <<"cash_accounts", List(cash_assets)>>,
                         <<"metadata",
                           Dict(<< <<"source", Str("plaid_sandbox")>>,
                                   <<"transformed_at", Str("2025-11-03T09:00:05")>>,
                                   <<"original_item_id",
                                     Lookup(Lookup(plaid_data, "metadata"), "item_id")>>,
                                   <<"total_accounts", Num(Len(accounts))>>,
                                   <<"total_assets", Num(Len(all_assets))>>,
                                   <<"total_liabilities", Num(Len(liabilities))>> >>)>>
                      >>)>> >>)

TransformerInit ==
    /\ EngineIdle
    /\ pipeline = NotRunning
    /\ analysis = NotRunning
    /\ fetcher = NotRunning
    /\ repair = NotRunning
    /\ transformer \in {[at |-> "loaded", plaid_data |-> d,
                          family_office_data |-> None, all_findings |-> Raised] :
                           d \in PlaidDatasets}

TransformToFamilyOfficeFormat ==
    /\ transformer.at = "loaded"
    /\ transformer' = [transformer EXCEPT
                         !.at = "transformed",
                         !.family_office_data =
                            transform_to_family_office_format(transformer.plaid_data)]
    /\ UNCHANGED <<engine, pipeline, analysis, fetcher, repair>>

\* The engine run on what the transformer returned
RunRulesOnTransformed ==
    /\ transformer.at = "transformed"
    /\ transformer' = [transformer EXCEPT
                         !.at = "analysed",
                         !.all_findings = run_all_rules(transformer.family_office_data)]
    /\ UNCHANGED <<engine, pipeline, analysis, fetcher, repair>>

TransformerNext ==
    \/ TransformToFamilyOfficeFormat
    \/ RunRulesOnTransformed

TransformerSpec == TransformerInit /\ [][TransformerNext]_vars

(***************************************************************************)
(* What a finished rule scanned, read back from the caller's object.       *)
(***************************************************************************)
StaleDone == pc \in {"liquidity", "protection", "combine", "returned"}

LiquidityDone == pc \in {"protection", "combine", "returned"}

ProtectionDone == pc \in {"combine", "returned"}

ScannedAssets == Iter(Get(Unwrap(data, "assets"), "assets", List(<<>>)))

ScannedLiabilities ==
    Iter(Get(Unwrap(data, "cash_accounts"), "liabilities", List(<<>>)))

ScannedCash ==
    Iter(Get(Unwrap(data, "cash_accounts"), "cash_accounts", List(<<>>)))

TotalCash == CashLoop(ScannedCash, 1, 0).total_cash

\* The k-th smallest index of a set of indices
NthOf(S, k) == CHOOSE i \in S : Cardinality({j \in S : j < i}) = k - 1

PrivateEquityDated(assets) ==
    {i \in 1..Len(assets) :
        /\ Get(assets[i], "type", None) = Str("private_equity")
        /\ StrptimeOk(Get(assets[i], "last_valuation_date", None))}

ValuationAge(asset) ==
    DaysBetween(TODAY, Strptime(Get(asset, "last_valuation_date", None)))

CallsDated(liabilities) ==
    {i \in 1..Len(liabilities) :
        /\ Get(liabilities[i], "type", None) = Str("capital_call")
        /\ StrptimeOk(Get(liabilities[i], "due_date", None))}

DaysUntilDue(liability) ==
    DaysBetween(Strptime(Get(liability, "due_date", None)), TODAY)

CallValue(liability) == Get(liability, "value", Num(0))

QualifyingCalls(liabilities, total_cash) ==
    {i \in CallsDated(liabilities) :
        /\ DaysUntilDue(liabilities[i]) >= 0
        /\ DaysUntilDue(liabilities[i]) <= 90
        /\ IsNum(CallValue(liabilities[i]))
        /\ CallValue(liabilities[i]).n > total_cash}

PrivateEquity(name, last_valuation_date) ==
    Asset(Str("private_equity"), name, last_valuation_date, Absent)

RealEstate(name, insurance_status) ==
    Asset(Str("real_estate"), name, Absent, insurance_status)

CapitalCall(due_date, value) == Liability(Str("capital_call"), due_date, value)

(***************************************************************************)
(* C1: check_stale_data emits a stale_valuation finding for a              *)
(* private_equity asset with a valid last_valuation_date exactly when      *)
(* TODAY - last_valuation_date, in whole days, is at least 366: one        *)
(* finding per such asset, in asset order, carrying that number of days;   *)
(* 365 days and dates in the future give none.                             *)
(***************************************************************************)
C1_StaleThreshold ==
    StaleDone =>
      LET assets == ScannedAssets
          over == {i \in PrivateEquityDated(assets) : ValuationAge(assets[i]) >= 366}
      IN /\ Len(stale_data_findings) = Cardinality(over)
         /\ \A k \in 1..Len(stale_data_findings) :
              /\ stale_data_findings[k].finding_type = "stale_valuation"
              /\ stale_data_findings[k].days_stale = ValuationAge(assets[NthOf(over, k)])
         /\ \A i \in PrivateEquityDated(assets) :
              LET d == Get(assets[i], "last_valuation_date", None) IN
                /\ d = DateText(2024, 11, 3) => ValuationAge(assets[i]) = 365 /\ i \notin over
                /\ d = DateText(2024, 11, 2) => ValuationAge(assets[i]) = 366 /\ i \in over
                /\ d = DateText(2024, 1, 15) => ValuationAge(assets[i]) = 658 /\ i \in over
                /\ d = DateText(2025, 12, 3) => ValuationAge(assets[i]) = -30 /\ i \notin over

C1_Witness ==
    /\ pc = "liquidity"
    /\ data = Canonical(<<PrivateEquity(Str("SaaSCo"), DateText(2024, 11, 3)),
                          PrivateEquity(Str("SaaSCo"), DateText(2024, 11, 2))>>,
                        <<>>, ScenarioCash)
    /\ stale_data_findings =
         <<[finding_type |-> "stale_valuation", asset_name |-> Str("SaaSCo"),
            days_stale |-> 366]>>

(***************************************************************************)
(* C2: check_liquidity emits no liquidity_shortfall finding for a capital  *)
(* call due before TODAY or more than 90 days after it, whatever its value *)
(* and the total cash: every finding's due_date lies 0..90 days ahead.     *)
(***************************************************************************)
C2_OutsideWindowNeverFlagged ==
    LiquidityDone =>
      /\ \A k \in 1..Len(liquidity_findings) :
           /\ StrptimeOk(liquidity_findings[k].due_date)
           /\ DaysBetween(Strptime(liquidity_findings[k].due_date), TODAY) \in 0..90
           /\ liquidity_findings[k].due_date \notin
                {DateText(2025, 11, 2), DateText(2026, 2, 2), DateText(2026, 3, 3)}
      /\ \A i \in CallsDated(ScannedLiabilities) :
           DaysUntilDue(ScannedLiabilities[i]) \notin 0..90 =>
             \A k \in 1..Len(liquidity_findings) :
               liquidity_findings[k].due_date # Get(ScannedLiabilities[i], "due_date", None)

C2_Witness ==
    /\ pc = "protection"
    /\ data = Canonical(<<>>,
                        <<CapitalCall(DateText(2025, 11, 2), Num(2000000)),
                          CapitalCall(DateText(2026, 2, 2), Num(2000000))>>,
                        <<>>)
    /\ liquidity_findings = <<>>

(***************************************************************************)
(* C3: for capital_call liabilities with a parsable due_date,              *)
(* check_liquidity emits one finding per call with 0 <= days_until_due     *)
(* <= 90 and value > total_cash, and none for any other call: a call due   *)
(* today or in exactly 90 days is flagged when its value exceeds the total *)
(* cash, a call whose value equals or is below it never is.                *)
(***************************************************************************)
C3_FlaggedExactlyInWindowAboveCash ==
    LiquidityDone =>
      LET liabilities == ScannedLiabilities
          hit == QualifyingCalls(liabilities, TotalCash)
      IN /\ Len(liquidity_findings) = Cardinality(hit)
         /\ \A k \in 1..Len(liquidity_findings) :
              liquidity_findings[k].due_date =
                Get(liabilities[NthOf(hit, k)], "due_date", None)
         /\ \A i \in CallsDated(liabilities) :
              LET d == Get(liabilities[i], "due_date", None)
                  v == CallValue(liabilities[i])
              IN /\ (/\ d \in {DateText(2025, 11, 3), DateText(2026, 2, 1)}
                     /\ IsNum(v)
                     /\ v.n > TotalCash) => i \in hit
                 /\ (IsNum(v) /\ v.n <= TotalCash) => i \notin hit

C3_Witness ==
    /\ pc = "protection"
    /\ data = Canonical(<<>>,
                        <<CapitalCall(DateText(2026, 2, 1), Num(2000000)),
                          CapitalCall(DateText(2025, 11, 3), Num(1750000))>>,
                        ScenarioCash)
    /\ liquidity_findings =
         <<[finding_type |-> "liquidity_shortfall", shortfall_usd |-> 250000,
            due_date |-> DateText(2026, 2, 1)]>>

(***************************************************************************)
(* C4: every liquidity_shortfall finding has a shortfall equal to its      *)
(* call's value minus total_cash, strictly positive, and the call's        *)
(* due_date text unchanged; cash of 1,750,000 and a call of 2,000,000 due  *)
(* in 30 days give one finding with shortfall 250000.                      *)
(***************************************************************************)
C4_ShortfallAmount ==
    LiquidityDone =>
      LET liabilities == ScannedLiabilities
          hit == QualifyingCalls(liabilities, TotalCash)
      IN /\ \A k \in 1..Len(liquidity_findings) :
              /\ k <= Cardinality(hit)
              /\ liquidity_findings[k].finding_type = "liquidity_shortfall"
              /\ liquidity_findings[k].shortfall_usd =
                   CallValue(liabilities[NthOf(hit, k)]).n - TotalCash
              /\ liquidity_findings[k].shortfall_usd > 0
              /\ liquidity_findings[k].due_date =
                   Get(liabilities[NthOf(hit, k)], "due_date", None)
         /\ (/\ TotalCash = 1750000
             /\ liabilities = <<CapitalCall(DateText(2025, 12, 3), Num(2000000))>>)
            => liquidity_findings =
                 <<[finding_type |-> "liquidity_shortfall", shortfall_usd |-> 250000,
                    due_date |-> DateText(2025, 12, 3)]>>

C4_Witness ==
    /\ pc = "protection"
    /\ data = Canonical(<<>>, <<CapitalCall(DateText(2025, 12, 3), Num(2000000))>>,
                        ScenarioCash)
    /\ Len(liquidity_findings) = 1
    /\ liquidity_findings[1].shortfall_usd = 250000

(***************************************************************************)
(* C5: check_asset_protection emits an asset_protection_risk finding for   *)
(* an asset exactly when its type is real_estate and its insurance_status  *)
(* is the text "inactive": no other status ("active", "Inactive", null,    *)
(* absent) and no asset of another type gives a finding.                   *)
(***************************************************************************)
C5_InactiveRealEstateOnly ==
    ProtectionDone =>
      LET assets == ScannedAssets
          risky == {i \in 1..Len(assets) :
                      /\ HasKey(assets[i], "type")
                      /\ Lookup(assets[i], "type") = Str("real_estate")
                      /\ HasKey(assets[i], "insurance_status")
                      /\ Lookup(assets[i], "insurance_status") = Str("inactive")}
      IN /\ Len(asset_protection_findings) = Cardinality(risky)
         /\ \A k \in 1..Len(asset_protection_findings) :
              /\ asset_protection_findings[k].finding_type = "asset_protection_risk"
              /\ asset_protection_findings[k].asset_name =
                   Get(assets[NthOf(risky, k)], "name", Str("Unknown"))

C5_Witness ==
    /\ pc = "combine"
    /\ data = Canonical(<<RealEstate(Str("Main St Property"), Str("Inactive")),
                          RealEstate(Str("Main St Property"), Str("inactive"))>>,
                        <<>>, ScenarioCash)
    /\ asset_protection_findings =
         <<[finding_type |-> "asset_protection_risk",
            asset_name |-> Str("Main St Property")]>>

(***************************************************************************)
(* C6: the list run_all_rules returns is the stale_valuation findings,     *)
(* then the liquidity_shortfall findings, then the asset_protection_risk   *)
(* findings, each block as its rule produced it; no finding of a later     *)
(* category precedes one of an earlier category.                           *)
(***************************************************************************)
CategoryRank(finding) ==
    CASE finding.finding_type = "stale_valuation" -> 1
      [] finding.finding_type = "liquidity_shortfall" -> 2
      [] finding.finding_type = "asset_protection_risk" -> 3

C6_CategoryOrder ==
    pc = "returned" =>
      /\ all_findings =
           stale_data_findings \o liquidity_findings \o asset_protection_findings
      /\ results[Len(results)] = Returned(all_findings)
      /\ \A i, j \in 1..Len(all_findings) :
           i < j => CategoryRank(all_findings[i]) <= CategoryRank(all_findings[j])
      /\ \A k \in 1..Len(stale_data_findings) : CategoryRank(stale_data_findings[k]) = 1
      /\ \A k \in 1..Len(liquidity_findings) : CategoryRank(liquidity_findings[k]) = 2
      /\ \A k \in 1..Len(asset_protection_findings) :
           CategoryRank(asset_protection_findings[k]) = 3

C6_Witness ==
    /\ pc = "returned"
    /\ data = Canonical(<<RealEstate(Str("Main St Property"), Str("inactive")),
                          PrivateEquity(Str("SaaSCo"), DateText(2024, 1, 15))>>,
                        <<CapitalCall(DateText(2025, 12, 3), Num(2000000))>>,
                        ScenarioCash)
    /\ all_findings =
         <<[finding_type |-> "stale_valuation", asset_name |-> Str("SaaSCo"),
            days_stale |-> 658],
           [finding_type |-> "liquidity_shortfall", shortfall_usd |-> 250000,
            due_date |-> DateText(2025, 12, 3)],
           [finding_type |-> "asset_protection_risk",
            asset_name |-> Str("Main St Property")]>>

(***************************************************************************)
(* C7: every call of run_all_rules on the same input hands back the same   *)
(* outcome, the findings equal in order and content: nothing is carried    *)
(* from one call to the next.                                              *)
(***************************************************************************)
C7_SameResultEveryRun ==
    \A i, j \in 1..Len(results) : results[i] = results[j]

C7_Witness ==
    /\ Len(results) >= 2
    /\ ~results[2].raised
    /\ Len(results[2].findings) >= 2

(***************************************************************************)
(* C8: no step of run_all_rules changes the object it was given: the       *)
(* mapping, its wrapping key and every entry stay as they were, also when  *)
(* the rules read the record under a wrapping key.                         *)
(***************************************************************************)
C8_InputNeverMutated == [][data' = data]_vars

C8_Witness ==
    /\ pc = "returned"
    /\ IsDict(data)
    /\ Len(data.items) = 1
    /\ FirstKey(data) = "fo_plaid_sandbox"
    /\ Len(all_findings) = 3

(***************************************************************************)
(* C9: a record whose three containers are lists never makes               *)
(* run_all_rules raise, whatever the shape of the entries in them.         *)
(***************************************************************************)
HasListContainers(record) ==
    /\ IsDict(record)
    /\ \A c \in Containers : HasKey(record, c) /\ Lookup(record, c).t = "list"

C9_MalformedEntryNeverRaises ==
    HasListContainers(data) => pc # "raised"

(***************************************************************************)
(* C10: a mapping that holds any subset of the three containers and        *)
(* nothing else, each one present a list of mappings, never makes          *)
(* run_all_rules raise.                                                    *)
(***************************************************************************)
IsPartialRecord(record) ==
    /\ IsDict(record)
    /\ \A i \in 1..Len(record.items) :
         /\ record.items[i][1] \in Containers
         /\ record.items[i][2].t = "list"
         /\ \A j \in 1..Len(record.items[i][2].elems) :
              IsDict(record.items[i][2].elems[j])

C10_AbsentContainersNeverRaise ==
    IsPartialRecord(data) => pc # "raised"

(***************************************************************************)
(* C11: a canonical record wrapped under a single key gives the outcome    *)
(* the record itself gives.  Stated for every key it fails; it holds for   *)
(* every key other than "assets" and "cash_accounts", the two fields whose *)
(* absence makes a rule unwrap.                                            *)
(***************************************************************************)
CallFinished == pc \in {"returned", "raised"}

LastResult == results[Len(results)]

WrapsCanonical(arg) ==
    /\ IsDict(arg)
    /\ Len(arg.items) = 1
    /\ HasListContainers(arg.items[1][2])

C11_UnwrappingTransparent ==
    (CallFinished /\ WrapsCanonical(data)) =>
      LastResult = run_all_rules(data.items[1][2])

C11_UnwrappingTransparentUnlessFieldKey ==
    (/\ CallFinished
     /\ WrapsCanonical(data)
     /\ FirstKey(data) \notin {"assets", "cash_accounts"}) =>
      LastResult = run_all_rules(data.items[1][2])

C11_Witness ==
    /\ pc = "returned"
    /\ WrapsCanonical(data)
    /\ FirstKey(data) = "liabilities"
    /\ Len(LastResult.findings) = 3
    /\ LastResult = run_all_rules(data.items[1][2])

(***************************************************************************)
(* C12: once check_liquidity has been entered, it and the two asset rules  *)
(* have read the same record: all the top-level mapping, or all the same   *)
(* inner mapping.                                                          *)
(***************************************************************************)
LiquidityEntered ==
    \/ pc \in {"protection", "combine", "returned"}
    \/ pc = "raised" /\ ~check_stale_data(data).raised

C12_RulesReadSameRecord ==
    (IsDict(data) /\ LiquidityEntered) =>
      Unwrap(data, "assets") = Unwrap(data, "cash_accounts")

(***************************************************************************)
(* C13: check_liquidity emits one finding per qualifying capital call, in  *)
(* liability order, each with its own call's value minus the one           *)
(* total_cash: earlier calls neither reduce the cash nor add to the value. *)
(***************************************************************************)
C13_IndependentShortfalls ==
    LiquidityDone =>
      LET liabilities == ScannedLiabilities
          hit == QualifyingCalls(liabilities, TotalCash)
      IN /\ liquidity_findings =
              [k \in 1..Cardinality(hit) |->
                 [finding_type |-> "liquidity_shortfall",
                  shortfall_usd |-> CallValue(liabilities[NthOf(hit, k)]).n - TotalCash,
                  due_date |-> Get(liabilities[NthOf(hit, k)], "due_date", None)]]
         /\ (/\ TotalCash = 1750000
             /\ liabilities = <<CapitalCall(DateText(2025, 12, 3), Num(2000000)),
                                CapitalCall(DateText(2026, 2, 1), Num(2000000))>>)
            => /\ Len(liquidity_findings) = 2
               /\ liquidity_findings[1].shortfall_usd = 250000
               /\ liquidity_findings[2].shortfall_usd = 250000

C13_Witness ==
    /\ pc = "protection"
    /\ data = Canonical(<<>>,
                        <<CapitalCall(DateText(2025, 12, 3), Num(2000000)),
                          CapitalCall(DateText(2026, 2, 1), Num(2000000))>>,
                        ScenarioCash)
    /\ Len(liquidity_findings) = 2
    /\ liquidity_findings[2].shortfall_usd = 250000

(***************************************************************************)
(* C14: a cash account enters total_cash with its balance field whenever   *)
(* that field holds a number, 0 included and also beside a value field;    *)
(* the findings are those that total gives.                                *)
(***************************************************************************)
BalanceWhenPresent(account) ==
    IF HasKey(account, "balance") /\ IsNum(Lookup(account, "balance"))
    THEN Lookup(account, "balance")
    ELSE AccountBalance(account)

RECURSIVE SumBalanceWhenPresent(_, _)
SumBalanceWhenPresent(accounts, i) ==
    IF i > Len(accounts) THEN 0
    ELSE (IF IsNum(BalanceWhenPresent(accounts[i]))
          THEN BalanceWhenPresent(accounts[i]).n ELSE 0)
         + SumBalanceWhenPresent(accounts, i + 1)

C14_BalancePreferredWhenPresent ==
    LiquidityDone =>
      /\ TotalCash = SumBalanceWhenPresent(ScannedCash, 1)
      /\ liquidity_findings =
           LiquidityLoop(ScannedLiabilities, 1,
                         SumBalanceWhenPresent(ScannedCash, 1), <<>>).findings

(***************************************************************************)
(* C15: a cash account whose balance, as the rule reads it, is no number   *)
(* adds nothing to total_cash and raises nothing: on a record of mappings  *)
(* the call never raises, and total_cash is the sum of the numeric         *)
(* balances of the other accounts.                                         *)
(***************************************************************************)
AllMappings(record) ==
    \A c \in Containers :
      \A j \in 1..Len(Lookup(record, c).elems) : IsDict(Lookup(record, c).elems[j])

RECURSIVE SumNumeric(_, _)
SumNumeric(accounts, i) ==
    IF i > Len(accounts) THEN 0
    ELSE (IF AccountBalance(accounts[i]).t = "num"
          THEN AccountBalance(accounts[i]).n ELSE 0)
         + SumNumeric(accounts, i + 1)

C15_NonNumericBalanceAddsZero ==
    (HasListContainers(data) /\ AllMappings(data) /\ pc \notin {"idle", "stale"}) =>
      /\ pc # "raised"
      /\ LiquidityDone =>
           /\ TotalCash = SumNumeric(ScannedCash, 1)
           /\ liquidity_findings =
                LiquidityLoop(ScannedLiabilities, 1, SumNumeric(ScannedCash, 1),
                              <<>>).findings

C15_Witness ==
    /\ pc = "protection"
    /\ data = Canonical(<<>>, <<CapitalCall(DateText(2025, 12, 3), Num(2000000))>>,
                        <<CashAccount(Str("n/a"), Absent),
                          CashAccount(Num(1000000), Absent)>>)
    /\ Len(liquidity_findings) = 1
    /\ liquidity_findings[1].shortfall_usd = 1000000

(***************************************************************************)
(* C16: a private_equity asset or capital_call whose date is absent, empty *)
(* or no calendar day gives no finding and no error: the outcome is the    *)
(* one the record gives with those entries removed, and a record of        *)
(* mappings never raises.                                                  *)
(***************************************************************************)
CalendarDays ==
    {DateText(2024, 11, 2), DateText(2024, 11, 3), DateText(2024, 1, 15),
     DateText(2025, 12, 3), DateText(2025, 11, 3), DateText(2025, 11, 2),
     DateText(2026, 2, 1), DateText(2026, 2, 2), DateText(2026, 3, 3)}

MalformedAsset(asset) ==
    /\ IsDict(asset)
    /\ Get(asset, "type", None) = Str("private_equity")
    /\ Get(asset, "last_valuation_date", None) \notin CalendarDays

MalformedCall(liability) ==
    /\ IsDict(liability)
    /\ Get(liability, "type", None) = Str("capital_call")
    /\ Get(liability, "due_date", None) \notin CalendarDays

Cleaned(record) ==
    Canonical(SelectSeq(Lookup(record, "assets").elems, LAMBDA a : ~MalformedAsset(a)),
              SelectSeq(Lookup(record, "liabilities").elems, LAMBDA l : ~MalformedCall(l)),
              Lookup(record, "cash_accounts").elems)

C16_MalformedDatesSkipped ==
    (HasListContainers(data) /\ CallFinished) =>
      /\ LastResult = run_all_rules(Cleaned(data))
      /\ AllMappings(data) => ~LastResult.raised

C16_Witness ==
    /\ pc = "returned"
    /\ data = Canonical(<<>>,
                        <<CapitalCall(DateText(2025, 13, 1), Num(2000000)),
                          CapitalCall(DateText(2025, 12, 3), Num(2000000))>>,
                        ScenarioCash)
    /\ all_findings =
         <<[finding_type |-> "liquidity_shortfall", shortfall_usd |-> 250000,
            due_date |-> DateText(2025, 12, 3)]>>

(***************************************************************************)
(* C17: every stale_valuation and asset_protection_risk finding carries    *)
(* its asset's name, and the text "Unknown" when the asset has no name     *)
(* field; an asset without a name is flagged like any other.               *)
(***************************************************************************)
NameOf(asset) ==
    IF HasKey(asset, "name") THEN Lookup(asset, "name") ELSE Str("Unknown")

C17_AssetNameOrUnknown ==
    ProtectionDone =>
      LET assets == ScannedAssets
          over == {i \in PrivateEquityDated(assets) : ValuationAge(assets[i]) >= 366}
          risky == {i \in 1..Len(assets) :
                      /\ Get(assets[i], "type", None) = Str("real_estate")
                      /\ Get(assets[i], "insurance_status", None) = Str("inactive")}
      IN /\ [k \in 1..Len(stale_data_findings) |-> stale_data_findings[k].asset_name]
              = [k \in 1..Cardinality(over) |-> NameOf(assets[NthOf(over, k)])]
         /\ [k \in 1..Len(asset_protection_findings) |->
               asset_protection_findings[k].asset_name]
              = [k \in 1..Cardinality(risky) |-> NameOf(assets[NthOf(risky, k)])]

C17_Witness ==
    /\ pc = "combine"
    /\ data = Canonical(<<PrivateEquity(Absent, DateText(2024, 11, 2)),
                          RealEstate(Absent, Str("inactive"))>>,
                        <<>>, ScenarioCash)
    /\ Len(stale_data_findings) = 1
    /\ stale_data_findings[1].asset_name = Str("Unknown")
    /\ asset_protection_findings =
         <<[finding_type |-> "asset_protection_risk", asset_name |-> Str("Unknown")]>>

(***************************************************************************)
(* C18: a record of mappings whose assets hold no private_equity and no    *)
(* real_estate entry and whose liabilities hold no capital_call entry      *)
(* gives an empty findings list and no error, whatever the dates, statuses *)
(* and values of its entries.                                              *)
(***************************************************************************)
NoRecognisedEntry(record) ==
    /\ \A j \in 1..Len(Lookup(record, "assets").elems) :
         Get(Lookup(record, "assets").elems[j], "type", None)
           \notin {Str("private_equity"), Str("real_estate")}
    /\ \A j \in 1..Len(Lookup(record, "liabilities").elems) :
         Get(Lookup(record, "liabilities").elems[j], "type", None) # Str("capital_call")

C18_UnrecognisedTypesIgnored ==
    (/\ HasListContainers(data)
     /\ AllMappings(data)
     /\ NoRecognisedEntry(data)
     /\ CallFinished) =>
      /\ pc = "returned"
      /\ all_findings = <<>>
      /\ LastResult = [raised |-> FALSE, findings |-> <<>>]

C18_Witness ==
    /\ pc = "returned"
    /\ data = Canonical(<<Asset(Str("public_equity"), Str("Index Fund"),
                                DateText(2024, 1, 15), Str("inactive"))>>,
                        <<Liability(Str("loan"), DateText(2025, 12, 3), Num(2000000))>>,
                        <<>>)
    /\ all_findings = <<>>

(***************************************************************************)
(* C19: an argument that is no mapping, or a mapping with none of the      *)
(* three containers whose first key maps to something that is no mapping,  *)
(* makes every call of run_all_rules raise: no findings list is returned.  *)
(***************************************************************************)
StructuralDefect(arg) ==
    \/ ~IsDict(arg)
    \/ /\ Len(arg.items) > 0
       /\ \A c \in Containers : ~HasKey(arg, c)
       /\ ~IsDict(arg.items[1][2])

C19_StructuralDefectRaises ==
    StructuralDefect(data) =>
      /\ pc \in {"idle", "stale", "raised"}
      /\ \A i \in 1..Len(results) : results[i].raised

C19_Witness ==
    /\ pc = "raised"
    /\ data = Wrapped("fo_plaid_sandbox", Str("x"))
    /\ Len(results) = 1
    /\ results[1].raised

(***************************************************************************)
(* C20: a capital_call entry without a value field never gives a           *)
(* liquidity_shortfall finding: the findings are as many as the qualifying *)
(* calls that hold a value.                                                *)
(***************************************************************************)
C20_NoValueNeverFlagged ==
    LiquidityDone =>
      LET liabilities == ScannedLiabilities IN
        Len(liquidity_findings) =
          Cardinality({i \in QualifyingCalls(liabilities, TotalCash) :
                         HasKey(liabilities[i], "value")})

(***************************************************************************)
(* C21: on a mapping of several keys that holds neither "assets" nor       *)
(* "cash_accounts", every rule reads the value under the first key and     *)
(* nothing else.  Stated as "the outcome is that of run_all_rules on the   *)
(* first value" it fails, because the rules unwrap once and run_all_rules  *)
(* on the first value would unwrap again; it holds when the first value is *)
(* nothing a rule unwraps: no mapping, an empty one, or one that holds     *)
(* both fields.                                                            *)
(***************************************************************************)
LacksFields(arg) ==
    /\ IsDict(arg)
    /\ Len(arg.items) >= 2
    /\ ~HasKey(arg, "assets")
    /\ ~HasKey(arg, "cash_accounts")

ReadAsItIs(v) ==
    \/ ~IsDict(v)
    \/ Len(v.items) = 0
    \/ HasKey(v, "assets") /\ HasKey(v, "cash_accounts")

C21_FirstKeyOnly ==
    (CallFinished /\ LacksFields(data)) =>
      LastResult = run_all_rules(data.items[1][2])

C21_FirstKeyOnlyNoSecondUnwrap ==
    (CallFinished /\ LacksFields(data) /\ ReadAsItIs(data.items[1][2])) =>
      LastResult = run_all_rules(data.items[1][2])

C21_Witness ==
    /\ pc = "returned"
    /\ LacksFields(data)
    /\ HasListContainers(data.items[1][2])
    /\ data.items[2][2] = Canonical(<<>>, <<>>, <<>>)
    /\ Len(LastResult.findings) = 3
    /\ LastResult = run_all_rules(data.items[1][2])

(***************************************************************************)
(* C22: a returned list holds at most one finding per asset and per        *)
(* liability and none for a cash account: the stale findings are no more   *)
(* than the private_equity assets, the protection findings no more than    *)
(* the real_estate assets, the shortfalls no more than the capital calls,  *)
(* and the list is no longer than the assets and liabilities together,     *)
(* in every call.                                                          *)
(***************************************************************************)
OfType(entries, type) ==
    {i \in 1..Len(entries) : Get(entries[i], "type", None) = Str(type)}

FindingsOfType(findings, type) ==
    Len(SelectSeq(findings, LAMBDA f : f.finding_type = type))

C22_OneFindingPerEntry ==
    pc = "returned" =>
      LET assets == ScannedAssets
          liabilities == ScannedLiabilities
      IN /\ OfType(assets, "private_equity") \cap OfType(assets, "real_estate") = {}
         /\ FindingsOfType(all_findings, "stale_valuation")
              <= Cardinality(OfType(assets, "private_equity"))
         /\ FindingsOfType(all_findings, "asset_protection_risk")
              <= Cardinality(OfType(assets, "real_estate"))
         /\ FindingsOfType(all_findings, "liquidity_shortfall")
              <= Cardinality(OfType(liabilities, "capital_call"))
         /\ Len(all_findings) = FindingsOfType(all_findings, "stale_valuation")
                                 + FindingsOfType(all_findings, "asset_protection_risk")
                                 + FindingsOfType(all_findings, "liquidity_shortfall")
         /\ Len(all_findings) <= Len(assets) + Len(liabilities)
         /\ LastResult.findings = all_findings

C22_Witness ==
    /\ pc = "returned"
    /\ Len(results) = 2
    /\ data = Canonical(<<PrivateEquity(Str("SaaSCo"), DateText(2024, 1, 15)),
                          RealEstate(Str("Main St Property"), Str("inactive"))>>,
                        <<CapitalCall(DateText(2025, 12, 3), Num(2000000))>>,
                        ScenarioCash)
    /\ Len(all_findings) = Len(ScannedAssets) + Len(ScannedLiabilities)

(***************************************************************************)
(* C23: main() starts the steps in the order fetch, transform, analysis,   *)
(* a step only after every earlier one returned 0; it returns 0 only when  *)
(* all three returned 0, returns 1 with the first step that returns        *)
(* non-zero or raises, and no exception leaves it.                         *)
(***************************************************************************)
StepOrder == <<"fetch", "transform", "analysis">>

StepFailed(r) == r.raised \/ r.ret # 0

C23_PipelineOrder ==
    /\ Len(pipeline.steps) <= 3
    /\ pipeline.steps = SubSeq(StepOrder, 1, Len(pipeline.steps))
    /\ Len(pipeline.returned) = Len(pipeline.steps)
    /\ \A i \in 1..Len(pipeline.returned) :
         i < Len(pipeline.returned) => ~StepFailed(pipeline.returned[i])
    /\ pipeline.value \in {NoValue, 0, 1}
    /\ pipeline.value = 0 <=>
         /\ Len(pipeline.returned) = 3
         /\ \A i \in 1..3 : ~StepFailed(pipeline.returned[i])
    /\ pipeline.value = 1 <=>
         \E i \in 1..Len(pipeline.returned) : StepFailed(pipeline.returned[i])
    /\ pipeline.at = "done" <=> pipeline.value # NoValue
    /\ \A i \in 1..Len(pipeline.returned) :
         pipeline.returned[i].raised => pipeline.at = "done" /\ pipeline.value = 1

C23_Witness ==
    /\ pipeline.at = "done"
    /\ pipeline.steps = <<"fetch", "transform", "analysis">>
    /\ pipeline.returned[3].raised
    /\ pipeline.value = 1
    /\ TransformedData \in pipeline.files

(***************************************************************************)
(* C24: run_analysis creates the model, sends the request and builds the   *)
(* InsightResponse only after run_all_rules returned at least one finding; *)
(* on an empty list it returns None with none of these done, and main      *)
(* returns 0 with nothing printed or saved.                                *)
(***************************************************************************)
RulesReturned == analysis.at \in {"returned", "model", "invoke", "parse"}

C24_ModelOnlyAfterFindings ==
    /\ analysis.events # <<>> =>
         /\ ~run_all_rules(analysis.data).raised
         /\ Len(run_all_rules(analysis.data).findings) >= 1
         /\ analysis.all_findings = run_all_rules(analysis.data).findings
    /\ (analysis.at \in {"model", "invoke", "parse"} \/ analysis.insights = "InsightResponse")
         => Len(analysis.all_findings) >= 1
    /\ (/\ analysis.at \in {"returned", "done"}
        /\ analysis.insights # "unset"
        /\ run_all_rules(analysis.data).findings = <<>>) =>
         /\ analysis.insights = "None"
         /\ analysis.events = <<>>
         /\ analysis.at = "done" => analysis.value = 0

C24_Witness ==
    /\ analysis.at = "done"
    /\ analysis.data = Canonical(<<Asset(Str("public_equity"), Str("Index Fund"),
                                         DateText(2024, 1, 15), Str("inactive"))>>,
                                 <<Liability(Str("loan"), DateText(2025, 12, 3),
                                             Num(2000000))>>,
                                 <<>>)
    /\ analysis.insights = "None"
    /\ analysis.events = <<>>
    /\ analysis.value = 0

(***************************************************************************)
(* C25: a retrying fetch makes at most max_retries API calls and then has  *)
(* ended; every attempt after the first follows an error whose text        *)
(* contains PRODUCT_NOT_READY, made while fewer than max_retries attempts  *)
(* were made; the first successful attempt ends the call with its records. *)
(***************************************************************************)
RetryMethods == {"get_transactions_with_retry", "get_investment_holdings_with_retry"}

Retrying == fetcher.at \in RetryMethods

\* The last finished call is a retrying fetch that got past the token test
RetryEnded ==
    /\ fetcher.at = "idle"
    /\ fetcher.outcome.method \in RetryMethods
    /\ fetcher.outcome.type # "ValueError"

C25_RetryTerminates ==
    /\ Retrying =>
         /\ fetcher.api_calls < fetcher.max_retries
         /\ fetcher.api_calls = fetcher.attempt
         /\ Len(fetcher.errors) = fetcher.api_calls
         /\ \A i \in 1..Len(fetcher.errors) : ProductNotReady(fetcher.errors[i])
    /\ RetryEnded =>
         /\ fetcher.api_calls <= fetcher.max_retries
         /\ Len(fetcher.errors) \in {fetcher.api_calls - 1, fetcher.api_calls}
         /\ \A i \in 1..(fetcher.api_calls - 1) :
              /\ i <= Len(fetcher.errors)
              /\ ProductNotReady(fetcher.errors[i])
              /\ i < fetcher.max_retries
         /\ (fetcher.api_calls >= 1 /\ Len(fetcher.errors) = fetcher.api_calls - 1) =>
              /\ fetcher.outcome.kind = "returned"
              /\ fetcher.outcome.type = "none"
              /\ fetcher.outcome.value \in ApiRecords

C25_Witness ==
    /\ RetryEnded
    /\ fetcher.outcome = MethodReturned("get_transactions_with_retry",
                                        <<"record 1", "record 2">>)
    /\ fetcher.max_retries = 3
    /\ fetcher.api_calls = 3
    /\ Len(fetcher.errors) = 2

(***************************************************************************)
(* C26: in a retrying fetch, a failure of the attempt with index           *)
(* max_retries - 1 ends the call with an empty list, whatever the error;   *)
(* a failure of an earlier attempt with an error that does not contain     *)
(* PRODUCT_NOT_READY ends it at once with that error raised.               *)
(***************************************************************************)
LastAttemptFailed == RetryEnded /\ Len(fetcher.errors) = fetcher.api_calls
                                /\ fetcher.api_calls >= 1

C26_FailureEndings ==
    /\ LastAttemptFailed =>
         LET error == fetcher.errors[Len(fetcher.errors)]
             index == Len(fetcher.errors) - 1
         IN /\ index = fetcher.max_retries - 1 =>
                 fetcher.outcome = MethodReturned(fetcher.outcome.method, <<>>)
            /\ index < fetcher.max_retries - 1 =>
                 /\ ~ProductNotReady(error)
                 /\ fetcher.outcome =
                      MethodRaised(fetcher.outcome.method, "ApiException", error)
    /\ (RetryEnded /\ fetcher.outcome.kind = "raised") =>
         /\ LastAttemptFailed
         /\ Len(fetcher.errors) < fetcher.max_retries
    /\ \A i \in 1..Len(fetcher.errors) :
         (fetcher.outcome.method \in RetryMethods \/ Retrying) =>
           (~ProductNotReady(fetcher.errors[i]) =>
              fetcher.at = "idle" /\ i = Len(fetcher.errors))

C26_Witness ==
    /\ LastAttemptFailed
    /\ fetcher.max_retries = 3
    /\ fetcher.errors = <<<<"PRODUCT_NOT_READY">>, <<"PRODUCT_NOT_READY">>,
                          <<"INVALID_ACCESS_TOKEN">>>>
    /\ fetcher.outcome = MethodReturned("get_investment_holdings_with_retry", <<>>)

(***************************************************************************)
(* C27: until an exchange_public_token call has succeeded, get_accounts    *)
(* and the retrying fetches raise ValueError without an API call and both  *)
(* fields are unset; a successful exchange sets access_token and item_id   *)
(* to what it was given, and a failed one leaves them as they were.        *)
(***************************************************************************)
GuardedMethods == RetryMethods \cup {"get_accounts"}

C27_TokenProtocol ==
    /\ ~fetcher.exchanged =>
         /\ fetcher.access_token = NoToken
         /\ fetcher.item_id = NoToken
         /\ ~Retrying
         /\ fetcher.outcome.method \in GuardedMethods =>
              /\ fetcher.outcome = TokenMissing(fetcher.outcome.method)
              /\ fetcher.api_calls = 0
    /\ fetcher.exchanged =>
         /\ fetcher.access_token \in AccessTokens
         /\ fetcher.item_id \in ItemIds
    /\ fetcher.access_token = fetcher.granted.access_token
    /\ fetcher.item_id = fetcher.granted.item_id
    /\ (fetcher.outcome.method = "exchange_public_token"
           /\ fetcher.outcome.kind = "returned") =>
         fetcher.outcome.value = <<fetcher.access_token, fetcher.item_id>>

C27_Witness ==
    /\ ~fetcher.exchanged
    /\ fetcher.calls = 3
    /\ fetcher.outcome = TokenMissing("get_transactions_with_retry")
    /\ fetcher.api_calls = 0

(***************************************************************************)
(* C28: the scan replaces each newline and carriage return that lies       *)
(* inside a string literal, and is not itself escaped by a backslash, by   *)
(* the two characters \\n or \\r, and copies every other character: those   *)
(* outside string literals and those a backslash escapes.  Applied to its  *)
(* own output it changes nothing.  A character is inside a string literal  *)
(* after an odd number of unescaped quotes; it is escaped when the         *)
(* character before it is an unescaped backslash inside a string literal.  *)
(***************************************************************************)
RECURSIVE InsideString(_, _), Escaped(_, _)
InsideString(text, k) ==
    IF k <= 1 THEN FALSE
    ELSE IF text[k - 1] = Quote /\ ~Escaped(text, k - 1)
      THEN ~InsideString(text, k - 1)
    ELSE InsideString(text, k - 1)

Escaped(text, k) ==
    /\ k > 1
    /\ text[k - 1] = Backslash
    /\ InsideString(text, k - 1)
    /\ ~Escaped(text, k - 1)

Repaired(text, k) ==
    IF text[k] \in {Newline, Return} /\ InsideString(text, k) /\ ~Escaped(text, k)
    THEN <<Backslash, IF text[k] = Newline THEN "n" ELSE "r">>
    ELSE <<text[k]>>

RECURSIVE RepairedUpTo(_, _)
RepairedUpTo(text, k) ==
    IF k = 0 THEN <<>> ELSE RepairedUpTo(text, k - 1) \o Repaired(text, k)

Transformed == transformer.at \in {"transformed", "analysed"}

PlaidAccounts == Lookup(transformer.plaid_data, "accounts").elems

FamilyOffice == Lookup(transformer.family_office_data, "fo_plaid_sandbox")

CreditAccounts ==
    {i \in 1..Len(PlaidAccounts) : Lookup(PlaidAccounts[i], "type") = Str("credit")}

HeldAccounts ==
    {i \in 1..Len(PlaidAccounts) :
        /\ i \notin CreditAccounts
        /\ IsNum(Current(PlaidAccounts[i]))
        /\ Current(PlaidAccounts[i]).n > 0}

Owed(account) ==
    IF IsNum(Current(account)) THEN Abs(Current(account).n) ELSE 0

C29_AccountsPartitioned ==
    Transformed =>
      LET assets == Lookup(FamilyOffice, "assets").elems
          liabilities == Lookup(FamilyOffice, "liabilities").elems
          cash_accounts == Lookup(FamilyOffice, "cash_accounts").elems
      IN /\ Len(liabilities) = Cardinality(CreditAccounts)
         /\ \A k \in 1..Len(liabilities) :
              LET account == PlaidAccounts[NthOf(CreditAccounts, k)] IN
                /\ Lookup(liabilities[k], "account_id") = Lookup(account, "account_id")
                /\ Lookup(liabilities[k], "value") = Num(Owed(account))
                /\ Lookup(liabilities[k], "value").n >= 0
         /\ Len(cash_accounts) = Cardinality(HeldAccounts)
         /\ \A k \in 1..Len(cash_accounts) :
              LET account == PlaidAccounts[NthOf(HeldAccounts, k)] IN
                /\ Lookup(cash_accounts[k], "account_id") = Lookup(account, "account_id")
                /\ Lookup(cash_accounts[k], "value") = Current(account)
                /\ Lookup(cash_accounts[k], "type")
                     \in {Str("cash_account"), Str("investment_account"), Str("other")}
         /\ Len(cash_accounts) <= Len(assets)
         /\ cash_accounts = SubSeq(assets, 1, Len(cash_accounts))
         /\ \A j \in (Len(cash_accounts) + 1)..Len(assets) :
              Lookup(assets[j], "type") = Str("investment_holding")

C29_Witness ==
    /\ transformer.at = "transformed"
    /\ Len(PlaidAccounts) = 2
    /\ CreditAccounts = {1}
    /\ Current(PlaidAccounts[1]) = Num(100)
    /\ HeldAccounts = {2}
    /\ Len(Lookup(FamilyOffice, "liabilities").elems) = 1
    /\ Len(Lookup(FamilyOffice, "cash_accounts").elems) = 1
    /\ Len(Lookup(FamilyOffice, "assets").elems) = 2

(***************************************************************************)
(* C30: what the transformer returns is a mapping with the single key      *)
(* fo_plaid_sandbox; run_all_rules unwraps it to the record under that     *)
(* key, raises nothing and returns an empty list: no asset is of type      *)
(* private_equity or real_estate and no liability of type capital_call.    *)
(***************************************************************************)
C30_TransformedGivesNoFindings ==
    /\ Transformed =>
         /\ IsDict(transformer.family_office_data)
         /\ Len(transformer.family_office_data.items) = 1
         /\ FirstKey(transformer.family_office_data) = "fo_plaid_sandbox"
         /\ HasListContainers(FamilyOffice)
         /\ AllMappings(FamilyOffice)
         /\ \A j \in 1..Len(Lookup(FamilyOffice, "assets").elems) :
              Lookup(Lookup(FamilyOffice, "assets").elems[j], "type")
                \notin {Str("private_equity"), Str("real_estate")}
         /\ \A j \in 1..Len(Lookup(FamilyOffice, "liabilities").elems) :
              Lookup(Lookup(FamilyOffice, "liabilities").elems[j], "type")
                # Str("capital_call")
    /\ transformer.at = "analysed" =>
         /\ ~transformer.all_findings.raised
         /\ transformer.all_findings.findings = <<>>
         /\ transformer.all_findings = run_all_rules(FamilyOffice)

C30_Witness ==
    /\ transformer.at = "analysed"
    /\ Len(Lookup(FamilyOffice, "assets").elems) = 2
    /\ Len(Lookup(FamilyOffice, "cash_accounts").elems) = 1
    /\ Len(Lookup(FamilyOffice, "liabilities").elems) = 1
    /\ Lookup(Lookup(FamilyOffice, "liabilities").elems[1], "value") = Num(50)
    /\ transformer.all_findings = [raised |-> FALSE, findings |-> <<>>]

====
